---- MODULE Spec2Model ----
(***************************************************************************)
(* Flow Rendering Engine of the microservices flow documenter              *)
(* (src/src/utils/exporters.js) and its caller, the flow preview's         *)
(* download handler (src/unnamed/part_000); the backend's Project and     *)
(* Flow models (src/unnamed/part_004); and the flow editor                 *)
(* (src/src/components/FlowDesigner.jsx) in its project context.           *)
(*                                                                         *)
(* A generated text is a sequence of lines; a line is the sequence of the  *)
(* pieces the template literal is made of: each literal fragment and each  *)
(* interpolated value is one string.  An empty line is <<>>.  Texts typed  *)
(* by the analyst are single-line.  The source's non-ASCII glyphs are      *)
(* written in ASCII: the bullet as "*", the arrow as "->", the banner      *)
(* rules as "====" and "----", the code fence as "~~~", and pictographs    *)
(* are left out.                                                           *)
(***************************************************************************)
EXTENDS Integers, Sequences, FiniteSets, TLC

VARIABLES flow, project, clock, content,
          projects, flows, project_members, response,
          currentFlow, currentProject, allProjects, storage,
          outputType, output, showOutput, clipboard, alerted

vars == <<flow, project, clock, content,
          projects, flows, project_members, response,
          currentFlow, currentProject, allProjects, storage,
          outputType, output, showOutput, clipboard, alerted>>

\* The flow preview's state, and the backend's tables with the outcome of
\* the last call of a model method.
previewVars == <<flow, project, clock, content>>
serverVars == <<projects, flows, project_members, response>>

\* The flow editor's state: the React state of the editor and of the project
\* context, the browser's storage and clipboard, and the last alert shown.
editorVars == <<currentFlow, currentProject, allProjects, storage,
                outputType, output, showOutput, clipboard, alerted>>

(***************************************************************************)
(* Bounds of the model.                                                    *)
(***************************************************************************)
MaxSteps == 2
MaxPaths == 2
MaxInvolved == 2
MaxInteractions == 2
MaxClock == 1

(***************************************************************************)
(* JavaScript helpers.                                                     *)
(***************************************************************************)
Digit == <<"0", "1", "2", "3", "4", "5", "6", "7", "8", "9">>

\* `${n}` for a non-negative integer: its decimal digits.
RECURSIVE NumStr(_)
NumStr(n) == IF n < 10 THEN Digit[n + 1]
             ELSE NumStr(n \div 10) \o Digit[(n % 10) + 1]

\* if (value): a string is truthy unless it is empty.
Truthy(s) == s # ""

\* a || b on strings.
OrElse(a, b) == IF Truthy(a) THEN a ELSE b

\* An optional property: absent from the object, or present.
Has(obj, field) == field \in DOMAIN obj

\* obj.field || []
ListOrEmpty(obj, field) == IF Has(obj, field) THEN obj[field] ELSE <<>>

\* The concatenation of a sequence of sequences (a forEach appending to
\* the output).
RECURSIVE Flatten(_)
Flatten(ss) == IF Len(ss) = 0 THEN <<>> ELSE Head(ss) \o Flatten(Tail(ss))

\* items.join(sep), as pieces of one line.
RECURSIVE Join(_, _)
Join(items, sep) ==
    IF Len(items) = 0 THEN <<>>
    ELSE IF Len(items) = 1 THEN <<items[1]>>
    ELSE <<items[1], sep>> \o Join(Tail(items), sep)

\* [...new Set(items)]: the distinct items in order of first occurrence.
RECURSIVE Unique(_)
Unique(items) ==
    IF Len(items) = 0 THEN <<>>
    ELSE LET front == Unique(SubSeq(items, 1, Len(items) - 1))
             last == items[Len(items)]
         IN IF \E i \in 1..Len(front) : front[i] = last
            THEN front ELSE Append(front, last)

\* items.filter(keep): the subsequence at the positions in keep.
RECURSIVE Filter(_, _)
Filter(items, keep) ==
    IF Len(items) = 0 THEN <<>>
    ELSE LET front == Filter(SubSeq(items, 1, Len(items) - 1),
                             keep \ {Len(items)})
         IN IF Len(items) \in keep THEN Append(front, items[Len(items)])
            ELSE front

\* items.find(x => x.id === id): its position, 0 when there is none.
FindById(items, id) ==
    LET hits == {i \in 1..Len(items) : items[i].id = id}
    IN IF hits = {} THEN 0
       ELSE CHOOSE i \in hits : \A j \in hits : i <= j

\* new Date() rendered as text, at the given reading of the clock.
DateText(now) == "T" \o NumStr(now)

(***************************************************************************)
(* Catalog Resolver.                                                       *)
(***************************************************************************)
\* for (const domain of domains) domain.services.find(...): the first match
\* in the domains' services taken in order.
AllServices(proj) ==
    Flatten([d \in 1..Len(proj.serviceRegistry.domains) |->
                proj.serviceRegistry.domains[d].services])

getServiceName(proj, serviceId) ==
    LET i == FindById(AllServices(proj), serviceId)
    IN IF i # 0 THEN AllServices(proj)[i].name ELSE "Unknown Service"

getActorName(proj, actorId) ==
    LET i == FindById(proj.actorRegistry.actors, actorId)
    IN IF i # 0
       THEN <<proj.actorRegistry.actors[i].abbreviation, " - ",
              proj.actorRegistry.actors[i].fullName>>
       ELSE <<"Unknown Actor">>

getIntegrationTypeName(proj, typeId) ==
    LET i == FindById(proj.integrationTypes.types, typeId)
    IN IF i # 0 THEN proj.integrationTypes.types[i].name ELSE "Unknown Type"

getServiceDomainName(proj, domainId) ==
    LET i == FindById(proj.serviceRegistry.domains, domainId)
    IN IF i # 0 THEN proj.serviceRegistry.domains[i].name
       ELSE "Unknown Domain"

\* The sequence graph's own resolvers.
SequenceServiceName(proj, serviceId) ==
    LET i == FindById(AllServices(proj), serviceId)
    IN IF i # 0
       THEN OrElse(AllServices(proj)[i].abbreviation, AllServices(proj)[i].name)
       ELSE "Unknown"

SequenceActorName(proj, actorId) ==
    LET i == FindById(proj.actorRegistry.actors, actorId)
    IN IF i # 0 THEN proj.actorRegistry.actors[i].abbreviation ELSE "Unknown"

\* A lookup that gives a service missing from the catalog its own id as
\* abbreviation.
ArchitectureServiceKeepingId(proj, serviceId) ==
    LET i == FindById(AllServices(proj), serviceId)
    IN IF i # 0
       THEN [name |-> AllServices(proj)[i].name,
             abbr |-> AllServices(proj)[i].abbreviation]
       ELSE [name |-> "Unknown", abbr |-> serviceId]

\* The topology graph's own resolver.
ArchitectureService(proj, serviceId) ==
    LET i == FindById(AllServices(proj), serviceId)
    IN IF i # 0
       THEN [name |-> AllServices(proj)[i].name,
             abbr |-> AllServices(proj)[i].abbreviation]
       ELSE [name |-> "Unknown", abbr |-> "UNK"]

(***************************************************************************)
(* Diagram-Authoring Prompt Generator: generateDrawioPrompt.               *)
(***************************************************************************)
Rule == "======================================="
Dash == "---------------------------------------"

\* The header block and the basic information.
DrawioBasicInformation(f, proj) ==
    << <<"GENERATE DRAW.IO DIAGRAM REQUEST">>, <<>>,
       <<"Please process this microservices flow and generate a draw.io XML file:">>,
       <<>>,
       <<Rule>>, <<"PROJECT: ", proj.name>>, <<"FLOW DETAILS">>, <<Rule>>, <<>>,
       <<"Basic Information:">>,
       <<"* Flow Name: ", f.name>>,
       <<"* Description: ", f.description>> >>
    \o (IF Truthy(f.serviceDomainId)
        THEN << <<"* Service Domain: ",
                  getServiceDomainName(proj, f.serviceDomainId)>> >>
        ELSE <<>>)
    \o (IF Has(f, "involvedServiceIds") /\ Len(f.involvedServiceIds) > 0
        THEN << <<"* Involved Services:">> >>
             \o [i \in 1..Len(f.involvedServiceIds) |->
                    <<"  - ", getServiceName(proj, f.involvedServiceIds[i])>>]
        ELSE <<>>)
    \o << <<"* Priority: ", f.priority>>,
          <<"* Status: ", f.status>>,
          <<"* Version: ", f.version>>,
          <<"* Entry Point: ", f.entryPoint>>,
          <<"* Trigger Event: ", f.triggerEvent>> >>
    \o (IF Len(f.actorIds) > 0
        THEN << <<"* Actors Involved:">> >>
             \o [i \in 1..Len(f.actorIds) |->
                    <<"  - ">> \o getActorName(proj, f.actorIds[i])]
        ELSE <<>>)
    \o (IF Len(f.tags) > 0
        THEN << <<"* Tags: ">> \o Join(f.tags, ", ") >>
        ELSE <<>>)
    \o << <<>> >>

\* One data description of a step, with its optional schema.
DrawioData(label, data) ==
    IF Truthy(data.description)
    THEN << <<label, data.description>> >>
         \o (IF Truthy(data.schema)
             THEN << <<"  Schema: ", data.schema>> >> ELSE <<>>)
    ELSE <<>>

\* The paragraph of one step.
DrawioStep(step, proj) ==
    << <<>>,
       <<"Step ", NumStr(step.stepNumber), ":">>,
       <<"* Actor: ">> \o getActorName(proj, step.actorId),
       <<"* Action: ", step.action>> >>
    \o (IF Len(step.serviceIds) > 0
        THEN << <<"* Services Involved:">> >>
             \o [i \in 1..Len(step.serviceIds) |->
                    <<"  - ", getServiceName(proj, step.serviceIds[i])>>]
        ELSE <<>>)
    \o << <<"* Communication: ",
            getIntegrationTypeName(proj, step.communicationTypeId)>> >>
    \o DrawioData("* Input: ", step.dataInput)
    \o DrawioData("* Output: ", step.dataOutput)
    \o (IF step.isDecisionPoint
        THEN << <<"* DECISION POINT: ", step.decisionCriteria>> >>
             \o (IF Len(step.conditionalPaths) > 0
                 THEN << <<"  Paths:">> >>
                      \o [i \in 1..Len(step.conditionalPaths) |->
                             <<"  - ", step.conditionalPaths[i].condition>>]
                 ELSE <<>>)
        ELSE <<>>)
    \o (IF Len(step.notifications) > 0
        THEN << <<"* Notifications:">> >>
             \o [i \in 1..Len(step.notifications) |->
                    <<"  - ", step.notifications[i].type, ": ",
                      step.notifications[i].recipient>>]
        ELSE <<>>)
    \o (IF Truthy(step.estimatedDuration)
        THEN << <<"* Duration: ", step.estimatedDuration>> >> ELSE <<>>)
    \o (IF Truthy(step.errorHandling)
        THEN << <<"* Error Handling: ", step.errorHandling>> >> ELSE <<>>)

\* The process steps with the loop stopping one step early.
DrawioProcessStepsButLast(f, proj) ==
    << <<"Process Steps (", NumStr(Len(f.steps)), "):">>, <<Dash>> >>
    \o Flatten([i \in 1..(Len(f.steps) - 1) |-> DrawioStep(f.steps[i], proj)])

\* The process steps: the counted header, then one paragraph per step.
DrawioProcessSteps(f, proj) ==
    << <<"Process Steps (", NumStr(Len(f.steps)), "):">>, <<Dash>> >>
    \o Flatten([i \in 1..Len(f.steps) |-> DrawioStep(f.steps[i], proj)])

\* One detailed service interaction.
DrawioInteraction(x, proj) ==
    << <<>>,
       <<"* ", getServiceName(proj, x.fromServiceId), " -> ",
         getServiceName(proj, x.toServiceId)>>,
       <<"  Type: ", x.interactionType, " (",
         getIntegrationTypeName(proj, x.communicationTypeId), ")">>,
       <<"  Method: ", x.method>> >>
    \o (IF Truthy(x.endpoint)
        THEN << <<"  Endpoint: ", x.endpoint>> >> ELSE <<>>)
    \o << <<"  Data Format: ", x.dataFormat>>,
          <<"  Data Exchanged: ", x.dataExchanged>> >>
    \o (IF Truthy(x.frequency)
        THEN << <<"  Frequency: ", x.frequency>> >> ELSE <<>>)
    \o (IF Truthy(x.averageLatency)
        THEN << <<"  Latency: ", x.averageLatency>> >> ELSE <<>>)
    \o (IF Truthy(x.authentication)
        THEN << <<"  Auth: ", x.authentication>> >> ELSE <<>>)
    \o (IF Truthy(x.errorHandling)
        THEN << <<"  Error Handling: ", x.errorHandling>> >> ELSE <<>>)
    \o (IF Truthy(x.description)
        THEN << <<"  Description: ", x.description>> >> ELSE <<>>)

DrawioServiceInteractions(f, proj) ==
    IF Has(f, "serviceInteractions") /\ Len(f.serviceInteractions) > 0
    THEN << <<>>, <<"Service Interactions (Detailed):">>, <<Dash>> >>
         \o Flatten([i \in 1..Len(f.serviceInteractions) |->
                        DrawioInteraction(f.serviceInteractions[i], proj)])
    ELSE <<>>

\* One simple integration point.
DrawioIntegration(x, proj) ==
    << <<>>,
       <<"* ", getServiceName(proj, x.fromServiceId), " -> ",
         getServiceName(proj, x.toServiceId)>>,
       <<"  Type: ", getIntegrationTypeName(proj, x.communicationTypeId)>>,
       <<"  Data: ", x.dataExchanged>>,
       <<"  Frequency: ", x.frequency>> >>
    \o (IF Truthy(x.protocol)
        THEN << <<"  Protocol: ", x.protocol>> >> ELSE <<>>)
    \o (IF Truthy(x.authentication)
        THEN << <<"  Auth: ", x.authentication>> >> ELSE <<>>)

\* The simple integration points written only for a flow that has no
\* detailed service-interaction record.
DrawioIntegrationPointsAsFallback(f, proj) ==
    IF Has(f, "integrations") /\ Len(f.integrations) > 0
       /\ Len(ListOrEmpty(f, "serviceInteractions")) = 0
    THEN << <<>>, <<"Integration Points:">>, <<Dash>> >>
         \o Flatten([i \in 1..Len(f.integrations) |->
                        DrawioIntegration(f.integrations[i], proj)])
    ELSE <<>>

DrawioIntegrationPoints(f, proj) ==
    IF Has(f, "integrations") /\ Len(f.integrations) > 0
    THEN << <<>>, <<"Integration Points:">>, <<Dash>> >>
         \o Flatten([i \in 1..Len(f.integrations) |->
                        DrawioIntegration(f.integrations[i], proj)])
    ELSE <<>>

\* Business rules whose heading is written for every flow.
DrawioBusinessRulesAlways(f) ==
    << <<>>, <<"Business Rules:">>, <<Dash>> >>
    \o [i \in 1..Len(f.businessRules) |->
           <<"* ", f.businessRules[i].name, ": ",
             f.businessRules[i].description>>]

DrawioBusinessRules(f) ==
    IF Len(f.businessRules) > 0
    THEN << <<>>, <<"Business Rules:">>, <<Dash>> >>
         \o [i \in 1..Len(f.businessRules) |->
                <<"* ", f.businessRules[i].name, ": ",
                  f.businessRules[i].description>>]
    ELSE <<>>

DrawioErrorScenario(x) ==
    << <<"* Scenario: ", x.scenario>>, <<"  Handling: ", x.handling>> >>
    \o (IF Truthy(x.notification)
        THEN << <<"  Notification: ", x.notification>> >> ELSE <<>>)

DrawioErrorScenarios(f) ==
    IF Len(f.errorScenarios) > 0
    THEN << <<>>, <<"Error Handling:">>, <<Dash>> >>
         \o Flatten([i \in 1..Len(f.errorScenarios) |->
                        DrawioErrorScenario(f.errorScenarios[i])])
    ELSE <<>>

DrawioPerformance(f) ==
    LET perf == f.performanceRequirements
    IN IF Truthy(perf.responseTime) \/ Truthy(perf.throughput)
       THEN << <<>>, <<"Performance Requirements:">>, <<Dash>> >>
            \o (IF Truthy(perf.responseTime)
                THEN << <<"* Response Time: ", perf.responseTime>> >>
                ELSE <<>>)
            \o (IF Truthy(perf.throughput)
                THEN << <<"* Throughput: ", perf.throughput>> >> ELSE <<>>)
            \o (IF Truthy(perf.availability)
                THEN << <<"* Availability: ", perf.availability>> >>
                ELSE <<>>)
       ELSE <<>>

\* A notes section written whether or not the flow has notes.
DrawioNotesAlways(f) ==
    << <<>>, <<"Additional Notes:">>, <<Dash>>, <<f.notes>> >>

DrawioNotes(f) ==
    IF Truthy(f.notes)
    THEN << <<>>, <<"Additional Notes:">>, <<Dash>>, <<f.notes>> >>
    ELSE <<>>

\* Requirement 1 with one swimlane line per actor the flow lists.
DrawioSwimlanesOfActorIds(f, proj) ==
    << <<>>, <<Rule>>, <<"DRAW.IO DIAGRAM REQUIREMENTS:">>, <<Rule>>, <<>>,
       <<"Please create a draw.io XML file with the following specifications:">>,
       <<>>,
       <<"1. SWIMLANES:">>,
       <<"   * Create a horizontal swimlane for each actor">>,
       <<"   * Label each swimlane with actor abbreviation and full name">> >>
    \o [i \in 1..Len(f.actorIds) |->
           <<"   * Swimlane: ">> \o getActorName(proj, f.actorIds[i])]

\* Requirement 1: one swimlane line per distinct actor of the steps.
DrawioSwimlanes(f, proj) ==
    LET uniqueActors == Unique([i \in 1..Len(f.steps) |-> f.steps[i].actorId])
    IN << <<>>, <<Rule>>, <<"DRAW.IO DIAGRAM REQUIREMENTS:">>, <<Rule>>, <<>>,
          <<"Please create a draw.io XML file with the following specifications:">>,
          <<>>,
          <<"1. SWIMLANES:">>,
          <<"   * Create a horizontal swimlane for each actor">>,
          <<"   * Label each swimlane with actor abbreviation and full name">> >>
       \o [i \in 1..Len(uniqueActors) |->
              <<"   * Swimlane: ">> \o getActorName(proj, uniqueActors[i])]

\* One line of the "Steps to create separately" list.
DrawioStepToCreate(step, proj) ==
    <<"   ", NumStr(step.stepNumber), ". \"", step.action, "\" [">>
    \o getActorName(proj, step.actorId) \o <<"]">>
    \o (IF Len(step.serviceIds) > 0
        THEN <<" - Services: ">>
             \o Join([i \in 1..Len(step.serviceIds) |->
                         getServiceName(proj, step.serviceIds[i])], ", ")
        ELSE <<>>)

\* Requirement 2: one rectangle per step.
DrawioProcessBoxes(f, proj) ==
    << <<>>,
       <<"2. PROCESS BOXES (CRITICAL - EACH STEP SEPARATE):">>,
       <<"   IMPORTANT: Create a SEPARATE rectangle shape for EACH step - DO NOT group steps together">>,
       <<"   * Rectangle shape for EVERY SINGLE step (", NumStr(Len(f.steps)),
         " total rectangles needed)">>,
       <<"   * Each rectangle must include:">>,
       <<"     - Step number (e.g., \"Step 1\")">>,
       <<"     - Action description">>,
       <<"     - Service names involved (as subtitle or badge)">>,
       <<"   * Place each rectangle in the appropriate swimlane based on the actor">>,
       <<"   * Use different rectangle colors/shades based on service involved">>,
       <<"   * Add small service icon or badge on each rectangle">>,
       <<>>,
       <<"   Steps to create separately:">> >>
    \o [i \in 1..Len(f.steps) |-> DrawioStepToCreate(f.steps[i], proj)]

\* Requirements 3 and 4: interaction arrows and data flow labels.
DrawioInteractionArrows(f, proj) ==
    << <<>>,
       <<"3. SERVICE INTERACTIONS:">>,
       <<"   * Show service-to-service communication with dedicated connector arrows">>,
       <<"   * Use different arrow styles for different interaction types:">>,
       <<"     - Synchronous: Solid arrow with filled head">>,
       <<"     - Asynchronous: Dashed arrow">>,
       <<"     - Event-driven: Wavy or zigzag arrow">>,
       <<"   * Label each service interaction arrow with:">>,
       <<"     - Method/operation (e.g., \"POST /api/users\")">>,
       <<"     - Data being exchanged">>,
       <<"     - Frequency (if applicable)">> >>
    \o (IF Has(f, "serviceInteractions") /\ Len(f.serviceInteractions) > 0
        THEN << <<>>, <<"   Service interactions to visualize:">> >>
             \o [i \in 1..Len(f.serviceInteractions) |->
                    <<"   * ",
                      getServiceName(proj, f.serviceInteractions[i].fromServiceId),
                      " -> ",
                      getServiceName(proj, f.serviceInteractions[i].toServiceId),
                      ": ", OrElse(f.serviceInteractions[i].method, "N/A"),
                      " (", f.serviceInteractions[i].interactionType, ")">>]
        ELSE <<>>)
    \o << <<>>,
          <<"4. DATA FLOW LABELS:">>,
          <<"   * Add text labels on EVERY connector arrow showing:">>,
          <<"     - What data is being passed (input/output)">>,
          <<"     - Data format (JSON, XML, etc.)">>,
          <<"     - Any transformations or processing">>,
          <<"   * Use small font but ensure readability">>,
          <<"   * Position labels along the arrow path">> >>

\* One decision step of requirement 5, with its paths.
DrawioDecision(step) ==
    << <<"   * Step ", NumStr(step.stepNumber), ": ", step.decisionCriteria>> >>
    \o (IF Has(step, "conditionalPaths") /\ Len(step.conditionalPaths) > 0
        THEN [i \in 1..Len(step.conditionalPaths) |->
                 <<"     -> Path: ", step.conditionalPaths[i].condition>>]
        ELSE <<>>)

\* Requirement 5 with an entry for every step, decision point or not.
DrawioDecisionPointsOfEveryStep(f) ==
    << <<>>,
       <<"5. DECISION POINTS:">>,
       <<"   * Use diamond shape for decision points">>,
       <<"   * Show ALL conditional paths coming out of the diamond">>,
       <<"   * Label each path with its condition">> >>
    \o (IF Len(f.steps) > 0
        THEN Flatten([i \in 1..Len(f.steps) |-> DrawioDecision(f.steps[i])])
        ELSE << <<"   * No decision points in this flow">> >>)
    \o << <<>>,
          <<"6. AUTOMATIONS & INTEGRATIONS:">>,
          <<"   * Add special icons/badges for:">>,
          <<"     - Automated steps (robot icon or \"AUTO\" badge)">>,
          <<"     - Notifications (bell icon)">>,
          <<"     - External integrations (cloud icon or \"EXT\" badge)">>,
          <<"     - Database operations (database icon)">>,
          <<"     - API calls (API icon)">> >>

\* Requirements 5 and 6: decision points, automations and integrations.
DrawioDecisionPoints(f) ==
    LET decisionSteps ==
            Filter(f.steps, {i \in 1..Len(f.steps) : f.steps[i].isDecisionPoint})
    IN << <<>>,
          <<"5. DECISION POINTS:">>,
          <<"   * Use diamond shape for decision points">>,
          <<"   * Show ALL conditional paths coming out of the diamond">>,
          <<"   * Label each path with its condition">> >>
       \o (IF Len(decisionSteps) > 0
           THEN Flatten([i \in 1..Len(decisionSteps) |->
                            DrawioDecision(decisionSteps[i])])
           ELSE << <<"   * No decision points in this flow">> >>)
       \o << <<>>,
             <<"6. AUTOMATIONS & INTEGRATIONS:">>,
             <<"   * Add special icons/badges for:">>,
             <<"     - Automated steps (robot icon or \"AUTO\" badge)">>,
             <<"     - Notifications (bell icon)">>,
             <<"     - External integrations (cloud icon or \"EXT\" badge)">>,
             <<"     - Database operations (database icon)">>,
             <<"     - API calls (API icon)">> >>

\* The fixed palette of requirement 7.
serviceColors == <<"#E3F2FD", "#F3E5F5", "#E8F5E9", "#FFF3E0", "#FCE4EC">>

\* Requirement 7 with the color of a service chosen by its place in the
\* catalog instead of its position in the flow.
DrawioColorCodingByService(f, proj) ==
    LET d == FindById(proj.serviceRegistry.domains, f.serviceDomainId)
    IN << <<>>, <<"7. COLOR CODING:">> >>
       \o (IF d # 0
           THEN << <<"   * Use ", proj.serviceRegistry.domains[d].color, " for ",
                     proj.serviceRegistry.domains[d].name, " domain elements">> >>
           ELSE <<>>)
       \o << <<"   * Assign consistent colors to each service:">> >>
       \o (IF Has(f, "involvedServiceIds") /\ Len(f.involvedServiceIds) > 0
           THEN [i \in 1..Len(f.involvedServiceIds) |->
                    <<"     - ", getServiceName(proj, f.involvedServiceIds[i]), ": ",
                      serviceColors[(FindById(AllServices(proj),
                                              f.involvedServiceIds[i])
                                     % Len(serviceColors)) + 1]>>]
           ELSE <<>>)
       \o << <<"   * Highlight decision points in yellow (#FFEB3B)">>,
             <<"   * Use red borders for error handling steps (#F44336)">>,
             <<"   * Use green for successful completion (#4CAF50)">> >>

\* Requirement 7: colors.
DrawioColorCoding(f, proj) ==
    LET d == FindById(proj.serviceRegistry.domains, f.serviceDomainId)
    IN << <<>>, <<"7. COLOR CODING:">> >>
       \o (IF d # 0
           THEN << <<"   * Use ", proj.serviceRegistry.domains[d].color, " for ",
                     proj.serviceRegistry.domains[d].name, " domain elements">> >>
           ELSE <<>>)
       \o << <<"   * Assign consistent colors to each service:">> >>
       \o (IF Has(f, "involvedServiceIds") /\ Len(f.involvedServiceIds) > 0
           THEN [i \in 1..Len(f.involvedServiceIds) |->
                    <<"     - ", getServiceName(proj, f.involvedServiceIds[i]), ": ",
                      serviceColors[((i - 1) % Len(serviceColors)) + 1]>>]
           ELSE <<>>)
       \o << <<"   * Highlight decision points in yellow (#FFEB3B)">>,
             <<"   * Use red borders for error handling steps (#F44336)">>,
             <<"   * Use green for successful completion (#4CAF50)">> >>

\* Requirements 8 and 9, and the closing timestamp block.
DrawioLayoutLegendFooter(now) ==
    << <<>>,
       <<"8. LAYOUT & SPACING:">>,
       <<"   * Left-to-right flow direction">>,
       <<"   * Maintain 50-100px spacing between consecutive step rectangles">>,
       <<"   * Align elements horizontally within same swimlane">>,
       <<"   * Use container groups for related sub-processes">>,
       <<"   * Ensure no overlapping elements">>,
       <<"   * Add padding within swimlanes (20px top/bottom)">>,
       <<>>,
       <<"9. LEGEND:">>,
       <<"   * Add a legend box showing:">>,
       <<"     - Color meanings (which color = which service)">>,
       <<"     - Line style meanings (solid = sync, dashed = async, etc.)">>,
       <<"     - Icon meanings (automation, notification, etc.)">>,
       <<"     - Shape meanings (rectangle = step, diamond = decision)">>,
       <<>>,
       <<Rule>>,
       <<"Generated: ", DateText(now)>>,
       <<Rule>> >>

generateDrawioPrompt(f, proj, now) ==
    DrawioBasicInformation(f, proj)
    \o DrawioProcessSteps(f, proj)
    \o DrawioServiceInteractions(f, proj)
    \o DrawioIntegrationPoints(f, proj)
    \o DrawioBusinessRules(f)
    \o DrawioErrorScenarios(f)
    \o DrawioPerformance(f)
    \o DrawioNotes(f)
    \o DrawioSwimlanes(f, proj)
    \o DrawioProcessBoxes(f, proj)
    \o DrawioInteractionArrows(f, proj)
    \o DrawioDecisionPoints(f)
    \o DrawioColorCoding(f, proj)
    \o DrawioLayoutLegendFooter(now)

(***************************************************************************)
(* Document Generator: generateMarkdownDoc.                                *)
(***************************************************************************)
MarkdownOverview(f, proj) ==
    << <<"# ", f.name>>, <<>>,
       <<"> ", f.description>>, <<>>,
       <<"## Overview">>, <<>>,
       <<"| Property | Value |">>,
       <<"|----------|-------|">>,
       <<"| Priority | ", f.priority, " |">>,
       <<"| Status | ", f.status, " |">>,
       <<"| Version | ", f.version, " |">>,
       <<"| Entry Point | ", f.entryPoint, " |">>,
       <<"| Trigger Event | ", f.triggerEvent, " |">>, <<>> >>
    \o (IF Len(f.actorIds) > 0
        THEN << <<"## Actors Involved">>, <<>> >>
             \o [i \in 1..Len(f.actorIds) |->
                    <<"- ">> \o getActorName(proj, f.actorIds[i])]
             \o << <<>> >>
        ELSE <<>>)

MarkdownStep(step, proj) ==
    << <<"### Step ", NumStr(step.stepNumber), ": ", step.action>>, <<>>,
       <<"**Actor:** ">> \o getActorName(proj, step.actorId), <<>> >>
    \o (IF Len(step.serviceIds) > 0
        THEN << <<"**Services:**">> >>
             \o [i \in 1..Len(step.serviceIds) |->
                    <<"- ", getServiceName(proj, step.serviceIds[i])>>]
             \o << <<>> >>
        ELSE <<>>)
    \o << <<"**Communication:** ",
            getIntegrationTypeName(proj, step.communicationTypeId)>>, <<>> >>
    \o (IF Truthy(step.dataInput.description)
        THEN << <<"**Input:** ", step.dataInput.description>>, <<>> >>
        ELSE <<>>)
    \o (IF Truthy(step.dataOutput.description)
        THEN << <<"**Output:** ", step.dataOutput.description>>, <<>> >>
        ELSE <<>>)
    \o (IF step.isDecisionPoint
        THEN << <<"**Decision Point:** ", step.decisionCriteria>>, <<>> >>
        ELSE <<>>)
    \o << <<"---">>, <<>> >>

\* A process flow that documents only the steps that involve a service.
MarkdownProcessFlowOfServiceSteps(f, proj) ==
    << <<"## Process Flow">>, <<>> >>
    \o Flatten([i \in 1..Len(f.steps) |->
                   IF Len(f.steps[i].serviceIds) > 0
                   THEN MarkdownStep(f.steps[i], proj) ELSE <<>>])

MarkdownProcessFlow(f, proj) ==
    << <<"## Process Flow">>, <<>> >>
    \o Flatten([i \in 1..Len(f.steps) |-> MarkdownStep(f.steps[i], proj)])

MarkdownIntegration(x, proj) ==
    << <<"- **", getServiceName(proj, x.fromServiceId), "** -> **",
         getServiceName(proj, x.toServiceId), "**">>,
       <<"  - Type: ", getIntegrationTypeName(proj, x.communicationTypeId)>>,
       <<"  - Data: ", x.dataExchanged>>,
       <<"  - Frequency: ", x.frequency>>, <<>> >>

MarkdownClosing(f, proj, now) ==
    (IF Len(f.integrations) > 0
     THEN << <<"## Integration Points">>, <<>> >>
          \o Flatten([i \in 1..Len(f.integrations) |->
                         MarkdownIntegration(f.integrations[i], proj)])
     ELSE <<>>)
    \o (IF Len(f.businessRules) > 0
        THEN << <<"## Business Rules">>, <<>> >>
             \o [i \in 1..Len(f.businessRules) |->
                    <<"- **", f.businessRules[i].name, ":** ",
                      f.businessRules[i].description>>]
             \o << <<>> >>
        ELSE <<>>)
    \o (IF Truthy(f.notes)
        THEN << <<"## Additional Notes">>, <<>>, <<f.notes>>, <<>> >>
        ELSE <<>>)
    \o << <<"---">>, <<"*Generated: ", DateText(now), "*">> >>

\* A document that also dates its title.
generateMarkdownDocDatedTitle(f, proj, now) ==
    << <<"# ", f.name, " (", DateText(now), ")">> >>
    \o Tail(MarkdownOverview(f, proj))
    \o MarkdownProcessFlow(f, proj)
    \o MarkdownClosing(f, proj, now)

generateMarkdownDoc(f, proj, now) ==
    MarkdownOverview(f, proj)
    \o MarkdownProcessFlow(f, proj)
    \o MarkdownClosing(f, proj, now)

(***************************************************************************)
(* Interaction-Matrix Generator: generateServiceInteractionMatrix.         *)
(***************************************************************************)
\* "-".repeat(n) as one piece.
RECURSIVE Dashes(_)
Dashes(n) == IF n = 0 THEN "" ELSE "-" \o Dashes(n - 1)

FromToLabelWidth == 15
ColumnWidth == 20

\* A cell that lists the interactions between the two services in either
\* direction.
MatrixCellEitherDirection(f, fromId, toId) ==
    IF fromId = toId
    THEN <<" - |">>
    ELSE LET all == ListOrEmpty(f, "serviceInteractions")
             interactions ==
                 Filter(all, {i \in 1..Len(all) :
                                 {all[i].fromServiceId, all[i].toServiceId}
                                     = {fromId, toId}})
         IN IF Len(interactions) > 0
            THEN <<" ">>
                 \o Join([i \in 1..Len(interactions) |->
                             OrElse(interactions[i].method,
                                    interactions[i].interactionType)], ", ")
                 \o <<" |">>
            ELSE <<" |">>

\* The pieces of one cell of the table, row fromId and column toId.
MatrixCell(f, fromId, toId) ==
    IF fromId = toId
    THEN <<" - |">>
    ELSE LET all == ListOrEmpty(f, "serviceInteractions")
             interactions ==
                 Filter(all, {i \in 1..Len(all) :
                                 /\ all[i].fromServiceId = fromId
                                 /\ all[i].toServiceId = toId})
         IN IF Len(interactions) > 0
            THEN <<" ">>
                 \o Join([i \in 1..Len(interactions) |->
                             OrElse(interactions[i].method,
                                    interactions[i].interactionType)], ", ")
                 \o <<" |">>
            ELSE <<" |">>

\* One row of the table: the row label, then one cell per involved service.
MatrixRow(f, proj, serviceIds, fromId) ==
    <<"| **", getServiceName(proj, fromId), "** |">>
    \o Flatten([c \in 1..Len(serviceIds) |-> MatrixCell(f, fromId, serviceIds[c])])

\* The header, the separator and the rows of the table.
MatrixTable(f, proj, serviceIds) ==
    << <<"| From \\ To | ">>
          \o Join([c \in 1..Len(serviceIds) |->
                      getServiceName(proj, serviceIds[c])], " | ")
          \o <<" |">>,
       <<"|", Dashes(FromToLabelWidth), "|">>
          \o Join([c \in 1..Len(serviceIds) |-> Dashes(ColumnWidth)], "|")
          \o <<"|">> >>
    \o [r \in 1..Len(serviceIds) |-> MatrixRow(f, proj, serviceIds, serviceIds[r])]

\* One subsection of the detailed listing.
MatrixDetail(x, index, proj) ==
    << <<"### ", NumStr(index), ". ", getServiceName(proj, x.fromServiceId),
         " -> ", getServiceName(proj, x.toServiceId)>>, <<>>,
       <<"| Property | Value |">>,
       <<"|----------|-------|">>,
       <<"| Interaction Type | ", x.interactionType, " |">>,
       <<"| Method | ", OrElse(x.method, "N/A"), " |">>,
       <<"| Endpoint | ", OrElse(x.endpoint, "N/A"), " |">>,
       <<"| Data Format | ", x.dataFormat, " |">>,
       <<"| Data Exchanged | ", x.dataExchanged, " |">>,
       <<"| Frequency | ", OrElse(x.frequency, "N/A"), " |">>,
       <<"| Latency | ", OrElse(x.averageLatency, "N/A"), " |">>,
       <<"| Authentication | ", OrElse(x.authentication, "N/A"), " |">>, <<>> >>

\* A detailed listing of the records between two different involved
\* services only.
MatrixDetailedInteractionsOfInvolved(f, proj) ==
    LET involved == {f.involvedServiceIds[i] : i \in 1..Len(f.involvedServiceIds)}
        listed == IF Has(f, "serviceInteractions")
                  THEN Filter(f.serviceInteractions,
                              {i \in 1..Len(f.serviceInteractions) :
                                  /\ f.serviceInteractions[i].fromServiceId \in involved
                                  /\ f.serviceInteractions[i].toServiceId \in involved
                                  /\ f.serviceInteractions[i].fromServiceId
                                         # f.serviceInteractions[i].toServiceId})
                  ELSE <<>>
    IN << <<>>, <<"## Detailed Interactions">>, <<>> >>
       \o (IF Len(listed) > 0
           THEN Flatten([i \in 1..Len(listed) |-> MatrixDetail(listed[i], i, proj)])
           ELSE << <<"No detailed service interactions documented.">> >>)

MatrixDetailedInteractions(f, proj) ==
    << <<>>, <<"## Detailed Interactions">>, <<>> >>
    \o (IF Has(f, "serviceInteractions") /\ Len(f.serviceInteractions) > 0
        THEN Flatten([i \in 1..Len(f.serviceInteractions) |->
                         MatrixDetail(f.serviceInteractions[i], i, proj)])
        ELSE << <<"No detailed service interactions documented.">> >>)

generateServiceInteractionMatrix(f, proj) ==
    LET head == << <<"# Service Interaction Matrix">>,
                   <<"**Flow:** ", f.name>>, <<>> >>
        serviceIds == ListOrEmpty(f, "involvedServiceIds")
    IN IF Len(serviceIds) = 0
       THEN head \o << <<"No services involved in this flow.">> >>
       ELSE head \o MatrixTable(f, proj, serviceIds)
                 \o MatrixDetailedInteractions(f, proj)

(***************************************************************************)
(* Sequence-Graph Generator: generateSequenceDiagram.                      *)
(***************************************************************************)
\* The participants taken from the lists declared on the flow.
SequenceParticipantsDeclared(f, proj) ==
    Unique([i \in 1..Len(f.actorIds) |-> SequenceActorName(proj, f.actorIds[i])]
           \o [i \in 1..Len(ListOrEmpty(f, "involvedServiceIds")) |->
                  SequenceServiceName(proj, f.involvedServiceIds[i])])

\* The labels of the walk, each as often as it is met.
SequenceParticipantsRepeated(f, proj) ==
    Flatten([i \in 1..Len(f.steps) |->
        <<SequenceActorName(proj, f.steps[i].actorId)>>
        \o [k \in 1..Len(f.steps[i].serviceIds) |->
               SequenceServiceName(proj, f.steps[i].serviceIds[k])]])

\* The participant set: per step its actor, then its services, each label
\* once, in order of first insertion.
SequenceParticipants(f, proj) ==
    Unique(Flatten([i \in 1..Len(f.steps) |->
        <<SequenceActorName(proj, f.steps[i].actorId)>>
        \o [k \in 1..Len(f.steps[i].serviceIds) |->
               SequenceServiceName(proj, f.steps[i].serviceIds[k])]]))

\* The request line of one service of a step, with no reply line.
SequenceMessagesWithoutReply(step, actor, service) ==
    LET commType == IF Truthy(step.communicationTypeId) THEN "->>+" ELSE "->>"
    IN << <<"    ", actor, commType, service, ": ", step.action>> >>

\* The request line and the optional reply line of one service of a step.
SequenceMessages(step, actor, service) ==
    LET commType == IF Truthy(step.communicationTypeId) THEN "->>+" ELSE "->>"
    IN << <<"    ", actor, commType, service, ": ", step.action>> >>
       \o (IF Truthy(step.dataOutput.description)
           THEN << <<"    ", service, "-->>-", actor, ": ",
                     step.dataOutput.description>> >>
           ELSE <<>>)

\* One conditional path of a decision step, at 0-based position idx.
SequencePath(path, idx, actor) ==
    IF idx = 0
    THEN <<"        Note right of ", actor, ": ", path.condition>>
    ELSE <<"    else ", path.condition>>

\* A branch block closed only when the step has conditional paths.
SequenceDecisionEndWithPaths(step, actor) ==
    IF step.isDecisionPoint
    THEN << <<"    alt ", step.decisionCriteria>> >>
         \o (IF Has(step, "conditionalPaths") /\ Len(step.conditionalPaths) > 0
             THEN [i \in 1..Len(step.conditionalPaths) |->
                      SequencePath(step.conditionalPaths[i], i - 1, actor)]
                  \o << <<"    end">> >>
             ELSE <<>>)
    ELSE <<>>

\* The branch block of a decision step.
SequenceDecision(step, actor) ==
    IF step.isDecisionPoint
    THEN << <<"    alt ", step.decisionCriteria>> >>
         \o (IF Has(step, "conditionalPaths") /\ Len(step.conditionalPaths) > 0
             THEN [i \in 1..Len(step.conditionalPaths) |->
                      SequencePath(step.conditionalPaths[i], i - 1, actor)]
             ELSE <<>>)
         \o << <<"    end">> >>
    ELSE <<>>

\* The lines of one step: messages, branch block, error note.
SequenceStep(step, proj) ==
    LET actor == SequenceActorName(proj, step.actorId)
    IN Flatten([k \in 1..Len(step.serviceIds) |->
           SequenceMessages(step, actor,
                            SequenceServiceName(proj, step.serviceIds[k]))])
       \o SequenceDecision(step, actor)
       \o (IF Truthy(step.errorHandling)
           THEN << <<"    Note over ", actor, ": Error Handling: ",
                     step.errorHandling>> >>
           ELSE <<>>)

generateSequenceDiagram(f, proj) ==
    LET participants == SequenceParticipants(f, proj)
    IN << <<"~~~mermaid">>, <<"sequenceDiagram">>,
          <<"    title ", f.name>>, <<>> >>
       \o [i \in 1..Len(participants) |-> <<"    participant ", participants[i]>>]
       \o << <<>> >>
       \o Flatten([i \in 1..Len(f.steps) |-> SequenceStep(f.steps[i], proj)])
       \o << <<"~~~">> >>

(***************************************************************************)
(* Topology-Graph Generator: generateArchitectureDiagram.                  *)
(***************************************************************************)
\* The node declaration of one involved service.
ArchitectureNode(proj, serviceId) ==
    LET service == ArchitectureService(proj, serviceId)
    IN <<"    ", service.abbr, "[\"", service.name, "\"]">>

\* Arrows that tell only synchronous from everything else.
ArchitectureArrowTwoKinds(interactionType) ==
    IF interactionType = "synchronous" THEN " -->|" ELSE " -.->|"

\* The arrow of an interaction kind.
ArchitectureArrow(interactionType) ==
    IF interactionType = "synchronous" THEN " -->|"
    ELSE IF interactionType = "asynchronous" THEN " -.->|"
    ELSE " ==>|"

\* The edge line of one service interaction.
ArchitectureEdge(x, proj) ==
    LET fromService == ArchitectureService(proj, x.fromServiceId)
        toService == ArchitectureService(proj, x.toServiceId)
        method == OrElse(x.method, x.interactionType)
    IN <<"    ", fromService.abbr, ArchitectureArrow(x.interactionType),
         method, "| ", toService.abbr>>

\* A topology graph whose nodes are the services the steps reference.
generateArchitectureDiagramOfSteps(f, proj) ==
    LET serviceIds == Unique(Flatten([i \in 1..Len(f.steps) |->
                                         f.steps[i].serviceIds]))
    IN << <<"~~~mermaid">>, <<"graph LR">>,
          <<"    %% ", f.name, " Architecture">>, <<>> >>
       \o [i \in 1..Len(serviceIds) |-> ArchitectureNode(proj, serviceIds[i])]
       \o << <<>> >>
       \o (IF Has(f, "serviceInteractions") /\ Len(f.serviceInteractions) > 0
           THEN [i \in 1..Len(f.serviceInteractions) |->
                    ArchitectureEdge(f.serviceInteractions[i], proj)]
           ELSE <<>>)
       \o << <<"~~~">> >>

generateArchitectureDiagram(f, proj) ==
    LET serviceIds == ListOrEmpty(f, "involvedServiceIds")
    IN << <<"~~~mermaid">>, <<"graph LR">>,
          <<"    %% ", f.name, " Architecture">>, <<>> >>
       \o [i \in 1..Len(serviceIds) |-> ArchitectureNode(proj, serviceIds[i])]
       \o << <<>> >>
       \o (IF Has(f, "serviceInteractions") /\ Len(f.serviceInteractions) > 0
           THEN [i \in 1..Len(f.serviceInteractions) |->
                    ArchitectureEdge(f.serviceInteractions[i], proj)]
           ELSE <<>>)
       \o << <<"~~~">> >>

(***************************************************************************)
(* JSON.stringify and JSON.parse.  A JSON text is held as its syntax tree: *)
(* a string, a number written in digits, a literal true or false, an array *)
(* of texts, or an object of members in property order.                    *)
(***************************************************************************)
\* The shapes of the values that are serialized.
JString == [kind |-> "string"]
JNumber == [kind |-> "number"]
JBoolean == [kind |-> "boolean"]
JArray(of) == [kind |-> "array", of |-> of]
JObject(fields) == [kind |-> "object", fields |-> fields]
JField(key, type) == [key |-> key, type |-> type]

RECURSIVE JSONstringify(_, _)

\* A serialization that leaves out the properties holding an empty list.
JSONstringifyWithoutEmptyLists(value, shape) ==
    IF shape.kind = "string" THEN [kind |-> "string", text |-> value]
    ELSE IF shape.kind = "number"
    THEN [kind |-> "number", text |-> NumStr(value)]
    ELSE IF shape.kind = "boolean"
    THEN [kind |-> "literal", text |-> IF value THEN "true" ELSE "false"]
    ELSE IF shape.kind = "array"
    THEN [kind |-> "array",
          items |-> [i \in 1..Len(value) |-> JSONstringify(value[i], shape.of)]]
    ELSE LET own == Filter(shape.fields,
                           {i \in 1..Len(shape.fields) :
                               /\ Has(value, shape.fields[i].key)
                               /\ ~(/\ shape.fields[i].type.kind = "array"
                                    /\ Len(value[shape.fields[i].key]) = 0)})
         IN [kind |-> "object",
             members |-> [i \in 1..Len(own) |->
                 [key |-> own[i].key,
                  value |-> JSONstringify(value[own[i].key], own[i].type)]]]

\* JSON.stringify(value): own properties in order, absent ones not written.
JSONstringify(value, shape) ==
    IF shape.kind = "string" THEN [kind |-> "string", text |-> value]
    ELSE IF shape.kind = "number"
    THEN [kind |-> "number", text |-> NumStr(value)]
    ELSE IF shape.kind = "boolean"
    THEN [kind |-> "literal", text |-> IF value THEN "true" ELSE "false"]
    ELSE IF shape.kind = "array"
    THEN [kind |-> "array",
          items |-> [i \in 1..Len(value) |-> JSONstringify(value[i], shape.of)]]
    ELSE LET own == Filter(shape.fields,
                           {i \in 1..Len(shape.fields) :
                               Has(value, shape.fields[i].key)})
         IN [kind |-> "object",
             members |-> [i \in 1..Len(own) |->
                 [key |-> own[i].key,
                  value |-> JSONstringify(value[own[i].key], own[i].type)]]]

\* JSON.parse(text).
RECURSIVE JSONparse(_)
JSONparse(text) ==
    IF text.kind = "string" THEN text.text
    ELSE IF text.kind = "number"
    THEN CHOOSE n \in 0..(MaxSteps + 1) : NumStr(n) = text.text
    ELSE IF text.kind = "literal" THEN text.text = "true"
    ELSE IF text.kind = "array"
    THEN [i \in 1..Len(text.items) |-> JSONparse(text.items[i])]
    ELSE [key \in {text.members[i].key : i \in 1..Len(text.members)} |->
             LET at == CHOOSE i \in 1..Len(text.members) :
                           /\ text.members[i].key = key
                           /\ \A j \in 1..Len(text.members) :
                                 text.members[j].key = key => j <= i
             IN JSONparse(text.members[at].value)]

\* The shape of a flow and of its parts.
DataShape == JObject(<< JField("description", JString), JField("schema", JString) >>)

StepShape ==
    JObject(<< JField("stepNumber", JNumber), JField("actorId", JString),
               JField("action", JString), JField("serviceIds", JArray(JString)),
               JField("dataInput", DataShape), JField("dataOutput", DataShape),
               JField("communicationTypeId", JString),
               JField("isDecisionPoint", JBoolean),
               JField("decisionCriteria", JString),
               JField("conditionalPaths",
                      JArray(JObject(<< JField("condition", JString) >>))),
               JField("notifications",
                      JArray(JObject(<< JField("type", JString),
                                        JField("recipient", JString) >>))),
               JField("estimatedDuration", JString),
               JField("errorHandling", JString) >>)

IntegrationShape ==
    JObject(<< JField("fromServiceId", JString), JField("toServiceId", JString),
               JField("communicationTypeId", JString),
               JField("dataExchanged", JString), JField("frequency", JString),
               JField("protocol", JString), JField("authentication", JString) >>)

InteractionShape ==
    JObject(<< JField("fromServiceId", JString), JField("toServiceId", JString),
               JField("interactionType", JString),
               JField("communicationTypeId", JString),
               JField("method", JString), JField("endpoint", JString),
               JField("dataExchanged", JString), JField("dataFormat", JString),
               JField("frequency", JString), JField("averageLatency", JString),
               JField("authentication", JString),
               JField("errorHandling", JString),
               JField("description", JString) >>)

FlowShape ==
    JObject(<< JField("name", JString), JField("description", JString),
               JField("involvedServiceIds", JArray(JString)),
               JField("serviceDomainId", JString),
               JField("priority", JString), JField("status", JString),
               JField("version", JString), JField("entryPoint", JString),
               JField("triggerEvent", JString),
               JField("actorIds", JArray(JString)),
               JField("tags", JArray(JString)),
               JField("steps", JArray(StepShape)),
               JField("integrations", JArray(IntegrationShape)),
               JField("serviceInteractions", JArray(InteractionShape)),
               JField("businessRules",
                      JArray(JObject(<< JField("name", JString),
                                        JField("description", JString),
                                        JField("type", JString) >>))),
               JField("errorScenarios",
                      JArray(JObject(<< JField("scenario", JString),
                                        JField("handling", JString),
                                        JField("notification", JString) >>))),
               JField("performanceRequirements",
                      JObject(<< JField("responseTime", JString),
                                 JField("throughput", JString),
                                 JField("availability", JString) >>)),
               JField("notes", JString) >>)

\* The shape of the object generateJSONExport builds around the flow.
ExportShape ==
    JObject(<< JField("flow", FlowShape),
               JField("project",
                      JObject(<< JField("id", JString), JField("name", JString),
                                 JField("version", JString) >>)),
               JField("exportedAt", JString), JField("format", JString) >>)

\* generateJSONExport: the flow inside an object that names the project,
\* the time of the export and the format.
generateJSONExport(f, proj, now) ==
    JSONstringify(
        [flow |-> f,
         project |-> [id |-> proj.id, name |-> proj.name,
                      version |-> proj.version],
         exportedAt |-> DateText(now),
         format |-> "Microservices Flow v1.0"], ExportShape)

(***************************************************************************)
(* The inputs: a catalog (project) and a workflow.                         *)
(***************************************************************************)
\* A project whose registries define services s1 (with a short code) and
\* s2 (without), actor a1 and integration type t1.
Catalog ==
    [id |-> "p1", name |-> "Licensing", version |-> "1.0.0",
     serviceRegistry |-> [domains |-> <<
         [id |-> "d1", name |-> "Intake", color |-> "#4CAF50",
          services |-> << [id |-> "s1", name |-> "Intake Svc",
                           abbreviation |-> "INT"] >>],
         [id |-> "d2", name |-> "Review", color |-> "#607D8B",
          services |-> << [id |-> "s2", name |-> "Review Svc",
                           abbreviation |-> ""] >>] >>],
     actorRegistry |-> [actors |-> <<
         [id |-> "a1", abbreviation |-> "AB", fullName |-> "Applicant"] >>],
     integrationTypes |-> [types |-> << [id |-> "t1", name |-> "REST API"] >>]]

\* A new project: its registries are empty.
EmptyCatalog ==
    [id |-> "p2", name |-> "New Project", version |-> "1.0.0",
     serviceRegistry |-> [domains |-> <<>>],
     actorRegistry |-> [actors |-> <<>>],
     integrationTypes |-> [types |-> <<>>]]

\* createFlowStep(stepNumber, data): the defaults, overridden by data.
createFlowStep(stepNumber, data) ==
    data @@
    [stepNumber |-> stepNumber, actorId |-> "", action |-> "",
     serviceIds |-> <<>>,
     dataInput |-> [description |-> "", schema |-> ""],
     dataOutput |-> [description |-> "", schema |-> ""],
     communicationTypeId |-> "",
     isDecisionPoint |-> FALSE, decisionCriteria |-> "",
     conditionalPaths |-> <<>>,
     notifications |-> <<>>,
     estimatedDuration |-> "", errorHandling |-> ""]

\* createServiceInteraction(data): the defaults, overridden by data.
createServiceInteraction(data) ==
    data @@
    [fromServiceId |-> "", toServiceId |-> "",
     interactionType |-> "synchronous", communicationTypeId |-> "",
     method |-> "", endpoint |-> "", dataExchanged |-> "",
     dataFormat |-> "JSON", frequency |-> "", averageLatency |-> "",
     authentication |-> "", errorHandling |-> "", description |-> ""]

\* createFlow(data): the defaults, overridden by data.
createFlow(data) ==
    data @@
    [name |-> "", description |-> "",
     involvedServiceIds |-> <<>>, serviceDomainId |-> "",
     priority |-> "Medium", status |-> "draft", version |-> "1.0",
     entryPoint |-> "", triggerEvent |-> "",
     actorIds |-> <<>>, tags |-> <<>>,
     steps |-> << createFlowStep(1, <<>>) >>,
     integrations |-> <<>>, serviceInteractions |-> <<>>,
     businessRules |-> <<>>, errorScenarios |-> <<>>,
     performanceRequirements |->
         [responseTime |-> "", throughput |-> "", availability |-> ""],
     notes |-> ""]

\* A flow stored before a property was introduced: the object without it.
Without(obj, field) == [k \in (DOMAIN obj) \ {field} |-> obj[k]]

\* The conditional paths "option 1" .. "option n" of a decision step.
Paths(n) == [k \in 1..n |-> [condition |-> "option " \o NumStr(k)]]

\* Steps that exchange messages: an actor and services that resolve or do
\* not, with and without a communication type and an output description.
MessageSteps ==
    { [actorId |-> who[1], serviceIds |-> who[2],
       communicationTypeId |-> comm,
       dataOutput |-> [description |-> out, schema |-> ""]] :
        who \in { <<"a1", <<>> >>, <<"a1", <<"s1">> >>,
                  <<"aX", <<"s2", "sX">> >> },
        comm \in {"", "t1"}, out \in {"", "ack"} }

\* Decision steps with 0 .. MaxPaths conditional paths, with and without an
\* error-handling note.
DecisionSteps ==
    { [actorId |-> "a1", serviceIds |-> <<"s1">>,
       communicationTypeId |-> "t1",
       dataOutput |-> [description |-> "ack", schema |-> ""],
       isDecisionPoint |-> TRUE, decisionCriteria |-> "complete?",
       conditionalPaths |-> Paths(n), errorHandling |-> err] :
        n \in 0..MaxPaths, err \in {"", "retry"} }

\* The step lists of up to MaxSteps steps, numbered 1..n in list order as
\* the editor numbers them, the action of step i being "Task i".
StepLists ==
    UNION { { [i \in 1..n |->
                 createFlowStep(i, [action |-> "Task " \o NumStr(i)] @@ pick[i])] :
              pick \in [1..n -> MessageSteps \cup DecisionSteps] } :
            n \in 0..MaxSteps }

\* The interaction records: between the two known services in either
\* direction and of each kind, with and without a method; from a service to
\* itself; to an unknown service.
Interactions ==
    { createServiceInteraction(
          [fromServiceId |-> ends[1], toServiceId |-> ends[2],
           interactionType |-> how[1], method |-> how[2]]) :
        ends \in { <<"s1", "s2">>, <<"s2", "s1">> },
        how \in { <<"synchronous", "POST /enroll">>, <<"asynchronous", "">>,
                  <<"event-driven", "">> } }
    \cup { createServiceInteraction(
               [fromServiceId |-> ends[1], toServiceId |-> ends[2],
                interactionType |-> "synchronous", method |-> "GET /status"]) :
             ends \in { <<"s1", "s1">>, <<"s2", "sX">> } }

SeqsUpTo(S, n) == UNION { [1..k -> S] : k \in 0..n }

\* Involved-service lists: up to MaxInvolved distinct ids.
InvolvedLists ==
    { ids \in SeqsUpTo({"s1", "s2", "sX"}, MaxInvolved) :
        \A i, j \in 1..Len(ids) : ids[i] = ids[j] => i = j }

BaseFlow ==
    [name |-> "Enroll", description |-> "Enrollment of an applicant",
     serviceDomainId |-> "d1", actorIds |-> <<"a1">>]

\* Flows that differ in their steps.
StepFlows ==
    { createFlow([steps |-> steps, involvedServiceIds |-> <<"s1", "s2">>]
                 @@ BaseFlow) : steps \in StepLists }

\* Flows that differ in their involved services and service interactions,
\* either property possibly absent.
ServiceFlowsWith(maxInvolved, maxInteractions) ==
    LET step == createFlowStep(1, [actorId |-> "a1", action |-> "Task 1",
                                   serviceIds |-> <<"s1">>])
        full == { createFlow([steps |-> <<step>>, involvedServiceIds |-> ids,
                              serviceInteractions |-> xs] @@ BaseFlow) :
                    ids \in {l \in InvolvedLists : Len(l) <= maxInvolved},
                    xs \in SeqsUpTo(Interactions, maxInteractions) }
    IN full
       \cup { Without(f, "involvedServiceIds") :
                f \in {g \in full : g.involvedServiceIds = <<>>} }
       \cup { Without(f, "serviceInteractions") :
                f \in {g \in full : g.serviceInteractions = <<>>} }

ServiceFlows == ServiceFlowsWith(MaxInvolved, MaxInteractions)

\* createFlowIntegration(data): the defaults, overridden by data.
createFlowIntegration(data) ==
    data @@
    [fromServiceId |-> "", toServiceId |-> "", communicationTypeId |-> "",
     dataExchanged |-> "", frequency |-> "", protocol |-> "",
     authentication |-> ""]

\* createBusinessRule(data): the defaults, overridden by data.
createBusinessRule(data) ==
    data @@ [name |-> "", description |-> "", type |-> "validation"]

\* createErrorScenario(data): the defaults, overridden by data.
createErrorScenario(data) ==
    data @@ [scenario |-> "", handling |-> "", notification |-> ""]

\* The optional parts of a flow that a flow of SectionFlows may fill in.
Sections ==
    {"actors", "tags", "involved", "interactions", "integrations", "rules",
     "errors", "notes"}

\* The step lists of SectionFlows: none, a bare step, a decision step
\* without paths that notifies, a decision step with paths and data.
SectionSteps ==
    { <<>>,
      << createFlowStep(1, [actorId |-> "a1", action |-> "Task 1"]) >>,
      << createFlowStep(1, [actorId |-> "a1", action |-> "Task 1",
                            isDecisionPoint |-> TRUE,
                            decisionCriteria |-> "complete?",
                            notifications |->
                                << [type |-> "email", recipient |-> "clerk"] >>]) >>,
      << createFlowStep(1, [actorId |-> "a1", action |-> "Task 1",
                            serviceIds |-> <<"s1">>,
                            communicationTypeId |-> "t1",
                            dataInput |-> [description |-> "form",
                                           schema |-> "Form v1"],
                            isDecisionPoint |-> TRUE,
                            decisionCriteria |-> "complete?",
                            conditionalPaths |-> Paths(MaxPaths),
                            estimatedDuration |-> "2 days"]) >> }

\* The performance requirements of SectionFlows: none, a response time, an
\* availability alone.
SectionPerformance ==
    { [responseTime |-> "", throughput |-> "", availability |-> ""],
      [responseTime |-> "200ms", throughput |-> "", availability |-> "99.9%"],
      [responseTime |-> "", throughput |-> "", availability |-> "99.9%"] }

\* Flows that differ in which optional parts are filled in.
SectionFlows ==
    { createFlow(
          [name |-> "Enroll", description |-> "Enrollment of an applicant",
           serviceDomainId |-> IF "involved" \in on THEN "d1" ELSE "",
           actorIds |-> IF "actors" \in on THEN <<"a1">> ELSE <<>>,
           tags |-> IF "tags" \in on THEN <<"licensing", "intake">> ELSE <<>>,
           involvedServiceIds |-> IF "involved" \in on THEN <<"s1">> ELSE <<>>,
           steps |-> steps,
           serviceInteractions |->
               IF "interactions" \in on
               THEN << createServiceInteraction(
                           [fromServiceId |-> "s1", toServiceId |-> "s2",
                            method |-> "POST /enroll"]) >>
               ELSE <<>>,
           integrations |->
               IF "integrations" \in on
               THEN << createFlowIntegration(
                           [fromServiceId |-> "s1", toServiceId |-> "s2",
                            communicationTypeId |-> "t1",
                            dataExchanged |-> "application"]) >>
               ELSE <<>>,
           businessRules |->
               IF "rules" \in on
               THEN << createBusinessRule([name |-> "Age",
                                           description |-> "18 or older"]) >>
               ELSE <<>>,
           errorScenarios |->
               IF "errors" \in on
               THEN << createErrorScenario([scenario |-> "timeout",
                                            handling |-> "retry"]) >>
               ELSE <<>>,
           performanceRequirements |-> perf,
           notes |-> IF "notes" \in on THEN "pilot" ELSE ""]) :
        on \in SUBSET Sections, steps \in SectionSteps,
        perf \in SectionPerformance }

\* Flows of one decision step and one interaction in which each optional
\* text (flow description, data schema, decision criteria, communication
\* type, interaction method, flow notes) is left empty or filled in.
SparseFlows ==
    { createFlow(
          [name |-> "Enroll", description |-> description,
           involvedServiceIds |-> <<"s1", "s2">>, actorIds |-> <<"a1">>,
           steps |-> << createFlowStep(1,
               [actorId |-> "a1", action |-> "Task 1",
                serviceIds |-> <<"s1">>, communicationTypeId |-> comm,
                dataInput |-> [description |-> "form", schema |-> schema],
                dataOutput |-> [description |-> "ack", schema |-> schema],
                isDecisionPoint |-> TRUE, decisionCriteria |-> criteria,
                conditionalPaths |-> Paths(1)]) >>,
           serviceInteractions |-> << createServiceInteraction(
               [fromServiceId |-> "s1", toServiceId |-> "s2",
                interactionType |-> "asynchronous", method |-> method]) >>,
           notes |-> notes]) :
        description \in {"", "Enrollment of an applicant"},
        schema \in {"", "Form v1"}, criteria \in {"", "complete?"},
        comm \in {"", "t1"}, method \in {"", "POST /enroll"},
        notes \in {"", "pilot"} }

(***************************************************************************)
(* The flow preview's download handler, and the clock.                     *)
(***************************************************************************)
Formats == {"drawio", "markdown", "matrix", "sequence", "architecture", "json"}

NoContent == [format |-> "none"]

\* The switch of handleDownload: the content and MIME type per format.
DownloadContent(format) ==
    IF format = "drawio"
    THEN [format |-> format, mimeType |-> "text/plain",
          lines |-> generateDrawioPrompt(flow, project, clock)]
    ELSE IF format = "markdown"
    THEN [format |-> format, mimeType |-> "text/plain",
          lines |-> generateMarkdownDoc(flow, project, clock)]
    ELSE IF format = "matrix"
    THEN [format |-> format, mimeType |-> "text/plain",
          lines |-> generateServiceInteractionMatrix(flow, project)]
    ELSE IF format = "sequence"
    THEN [format |-> format, mimeType |-> "text/plain",
          lines |-> generateSequenceDiagram(flow, project)]
    ELSE IF format = "architecture"
    THEN [format |-> format, mimeType |-> "text/plain",
          lines |-> generateArchitectureDiagram(flow, project)]
    ELSE [format |-> format, mimeType |-> "application/json",
          json |-> JSONstringify(flow, FlowShape)]

\* A download that first stores the defaults of the optional lists in the
\* flow it was given.
handleDownloadStoringDefaults(format) ==
    /\ content' = DownloadContent(format)
    /\ flow' = [involvedServiceIds |-> ListOrEmpty(flow, "involvedServiceIds"),
                serviceInteractions |-> ListOrEmpty(flow, "serviceInteractions")]
               @@ flow
    /\ UNCHANGED <<project, clock, serverVars, editorVars>>

\* handleDownload(format): the content handed to the download; the flow and
\* the project are only read.
handleDownload(format) ==
    /\ content' = DownloadContent(format)
    /\ UNCHANGED <<flow, project, clock, serverVars, editorVars>>

\* generateTextFlowVisualization of the flow preview: the actors' short
\* codes joined by arrows, or a notice when there is no step.
generateTextFlowVisualization(f, proj) ==
    IF ~Has(f, "steps") \/ Len(f.steps) = 0
    THEN << <<"No steps defined">> >>
    ELSE << Join([i \in 1..Len(f.steps) |->
                     LET a == FindById(proj.actorRegistry.actors,
                                       f.steps[i].actorId)
                     IN (IF a # 0
                         THEN OrElse(proj.actorRegistry.actors[a].abbreviation, "?")
                         ELSE "?")
                        \o (IF i < Len(f.steps) THEN " ->" ELSE "")], " ") >>

\* The flow preview renders the text visualization.
ShowTextFlow ==
    /\ content' = [format |-> "textflow",
                   lines |-> generateTextFlowVisualization(flow, project)]
    /\ UNCHANGED <<flow, project, clock, serverVars, editorVars>>

\* A call of generateJSONExport.
ExportJSON ==
    /\ content' = [format |-> "export",
                   json |-> generateJSONExport(flow, project, clock)]
    /\ UNCHANGED <<flow, project, clock, serverVars, editorVars>>

\* Time passes between two calls.
Tick ==
    /\ clock < MaxClock
    /\ clock' = clock + 1
    /\ UNCHANGED <<flow, project, content, serverVars, editorVars>>

Download == \E format \in Formats : handleDownload(format)

\* The backend's tables before any request: no project, no flow, no member.
NoResponse == [op |-> "none"]

InitTables ==
    /\ projects = {}
    /\ flows = {}
    /\ project_members = {}
    /\ response = NoResponse

\* The flow editor before it is opened.
EditorClosed ==
    /\ currentFlow = <<>>
    /\ currentProject = <<>>
    /\ allProjects = <<>>
    /\ storage = <<>>
    /\ outputType = "drawio"
    /\ output = <<>>
    /\ showOutput = FALSE
    /\ clipboard = <<>>
    /\ alerted = ""

\* Any flow of either family with at most one step and one interaction,
\* against either catalog, with time passing between the calls.
Init ==
    /\ flow \in {f \in StepFlows : Len(f.steps) <= 1}
                \cup ServiceFlowsWith(MaxInvolved, 1)
    /\ project \in {Catalog, EmptyCatalog}
    /\ clock = 0
    /\ content = NoContent
    /\ InitTables
    /\ EditorClosed

Next == Download \/ ExportJSON \/ ShowTextFlow \/ Tick

Spec == Init /\ [][Next]_vars

\* Every step list, against the catalog.
InitSteps ==
    /\ flow \in StepFlows
    /\ project = Catalog
    /\ clock = 0
    /\ content = NoContent
    /\ InitTables
    /\ EditorClosed

NextCalls == Download \/ ExportJSON \/ ShowTextFlow

SpecSteps == InitSteps /\ [][NextCalls]_vars

\* Every involved-service list and interaction list, against the catalog.
InitServices ==
    /\ flow \in ServiceFlows
    /\ project = Catalog
    /\ clock = 0
    /\ content = NoContent
    /\ InitTables
    /\ EditorClosed

SpecServices == InitServices /\ [][NextCalls]_vars

\* Every combination of optional parts, against the catalog.
InitSections ==
    /\ flow \in SectionFlows
    /\ project = Catalog
    /\ clock = 0
    /\ content = NoContent
    /\ InitTables
    /\ EditorClosed

SpecSections == InitSections /\ [][NextCalls]_vars

\* Steps with and without services, an output description, an
\* error-handling text and a branch block.
NumberedSteps ==
    { [actorId |-> who[1], serviceIds |-> who[2],
       dataOutput |-> [description |-> out, schema |-> ""],
       errorHandling |-> err] :
        who \in { <<"a1", <<>> >>, <<"a1", <<"s1">> >>,
                  <<"aX", <<"s2", "sX">> >> },
        out \in {"", "ack"}, err \in {"", "retry"} }
    \cup { [actorId |-> "a1", serviceIds |-> <<"s1">>,
            dataOutput |-> [description |-> "ack", schema |-> ""],
            isDecisionPoint |-> TRUE, decisionCriteria |-> "complete?",
            conditionalPaths |-> Paths(1), errorHandling |-> "retry"] }

\* The stepNumber values of a list of n steps: ascending, descending, or
\* the same for every step.
Numberings(n) ==
    { [i \in 1..n |-> i], [i \in 1..n |-> n + 1 - i], [i \in 1..n |-> 1] }

\* Flows whose steps carry any of these numberings, the action of the step
\* at position i being "Task i".
NumberedFlows ==
    UNION { { createFlow(
                  [steps |-> [i \in 1..n |->
                      createFlowStep(number[i],
                                     [action |-> "Task " \o NumStr(i)] @@ pick[i])],
                   involvedServiceIds |-> <<"s1", "s2">>] @@ BaseFlow) :
              pick \in [1..n -> NumberedSteps], number \in Numberings(n) } :
            n \in 0..MaxSteps }

\* Every numbering of the steps, against the catalog.
InitNumbered ==
    /\ flow \in NumberedFlows
    /\ project = Catalog
    /\ clock = 0
    /\ content = NoContent
    /\ InitTables
    /\ EditorClosed

SpecNumbered == InitNumbered /\ [][NextCalls]_vars

\* Every combination of empty and filled optional texts, against the
\* catalog.
InitSparse ==
    /\ flow \in SparseFlows
    /\ project = Catalog
    /\ clock = 0
    /\ content = NoContent
    /\ InitTables
    /\ EditorClosed

SpecSparse == InitSparse /\ [][NextCalls]_vars

\* Flows that differ in their service-interaction records and their legacy
\* integration records, in
\* their steps and in the sections that follow the two lists.
MaxIntegrations == 2

PointInteractions ==
    { createServiceInteraction(
          [fromServiceId |-> ends[1], toServiceId |-> ends[2],
           method |-> "POST /enroll"]) :
        ends \in { <<"s1", "s2">>, <<"s2", "sX">> } }

PointIntegrations ==
    { [k \in 1..n |->
          createFlowIntegration(
              [fromServiceId |-> IF k % 2 = 1 THEN "s1" ELSE "s2",
               toServiceId |-> IF k % 2 = 1 THEN "s2" ELSE "s1",
               communicationTypeId |-> "t1",
               dataExchanged |-> "record " \o NumStr(k)])] :
        n \in 0..MaxIntegrations }

PointFlows ==
    { createFlow(
          [steps |-> steps,
           involvedServiceIds |-> <<"s1", "s2">>,
           serviceInteractions |-> xs,
           integrations |-> ys,
           businessRules |->
               IF "rules" \in on
               THEN << createBusinessRule(
                           [name |-> "Age",
                            description |-> "18 or older"]) >>
               ELSE <<>>,
           errorScenarios |->
               IF "errors" \in on
               THEN << createErrorScenario(
                           [scenario |-> "timeout",
                            handling |-> "retry"]) >>
               ELSE <<>>,
           performanceRequirements |->
               [responseTime |-> IF "performance" \in on
                                 THEN "200ms" ELSE "",
                throughput |-> "", availability |-> ""],
           notes |-> IF "notes" \in on THEN "pilot" ELSE ""]
          @@ BaseFlow) :
        steps \in SectionSteps,
        xs \in SeqsUpTo(PointInteractions, MaxInteractions),
        ys \in PointIntegrations,
        on \in SUBSET {"rules", "errors", "performance", "notes"} }

InitPoints ==
    /\ flow \in PointFlows
    /\ project = Catalog
    /\ clock = 0
    /\ content = NoContent
    /\ InitTables
    /\ EditorClosed

SpecPoints == InitPoints /\ [][NextCalls]_vars

\* A catalog of three actors, and flows of up to MaxActorSteps steps whose
\* actors are drawn from two catalogued actors and two unknown ones; the
\* flow lists the three catalogued actors, the third being used by no step.
MaxActorSteps == 3

ActorCatalog ==
    [Catalog EXCEPT !.actorRegistry = [actors |-> <<
         [id |-> "a1", abbreviation |-> "AB", fullName |-> "Applicant"],
         [id |-> "a2", abbreviation |-> "CL", fullName |-> "Clerk"],
         [id |-> "a3", abbreviation |-> "AU", fullName |-> "Auditor"] >>]]

ActorFlows ==
    { createFlow(
          [steps |-> [i \in 1..Len(who) |->
                         createFlowStep(i, [actorId |-> who[i],
                                            action |-> "Task " \o NumStr(i)])],
           involvedServiceIds |-> <<"s1">>,
           actorIds |-> <<"a1", "a2", "a3">>] @@ BaseFlow) :
        who \in SeqsUpTo({"a1", "a2", "aX", "aY"}, MaxActorSteps) }

InitActors ==
    /\ flow \in ActorFlows
    /\ project = ActorCatalog
    /\ clock = 0
    /\ content = NoContent
    /\ InitTables
    /\ EditorClosed

SpecActors == InitActors /\ [][NextCalls]_vars

\* Flows of up to MaxColored involved services, a catalogued and an
\* unknown one in every arrangement, so that a service stands at several
\* positions and the palette is passed more than once.
MaxColored == 7

ColoredFlows ==
    { createFlow([steps |-> << createFlowStep(1, [actorId |-> "a1",
                                                  action |-> "Task 1"]) >>,
                  involvedServiceIds |-> ids] @@ BaseFlow) :
        ids \in SeqsUpTo({"s1", "sX"}, MaxColored) }

InitColored ==
    /\ flow \in ColoredFlows
    /\ project = Catalog
    /\ clock = 0
    /\ content = NoContent
    /\ InitTables
    /\ EditorClosed

SpecColored == InitColored /\ [][NextCalls]_vars

(***************************************************************************)
(* The backend's Project and Flow models (src/unnamed/part_004) over the   *)
(* tables of backend/migrations/001_initial_schema.sql.  A table is the    *)
(* set of its rows; a row keeps the columns the permission checks and the  *)
(* writes touch.  Each model method is one step: its role query and its    *)
(* write.  response is what the method returned or threw.                  *)
(***************************************************************************)
Users == {"ann", "bob", "cy"}
ProjectIds == {"p1"}
FlowIds == <<"f1">>
Null == "NULL"
Timestamp == "NOW()"

\* The roles the project_members table accepts.
MemberRoles == {"owner", "editor", "viewer"}

Tables == <<projects, flows, project_members>>

Returned(op, userId, id) ==
    response' = [op |-> op, userId |-> userId, id |-> id, error |-> ""]

\* A method that throws has written nothing.
Thrown(op, userId, id, message) ==
    /\ response' = [op |-> op, userId |-> userId, id |-> id, error |-> message]
    /\ UNCHANGED Tables

\* Project.checkAccess(projectId, userId)
checkAccess(projectId, userId) ==
    \E p \in projects :
        /\ p.id = projectId
        /\ \/ p.owner_id = userId
           \/ p.is_public
           \/ \E pm \in project_members :
                  pm.project_id = p.id /\ pm.user_id = userId
        /\ p.deleted_at = Null

\* Project.getUserRole(projectId, userId): the role of the first row of the
\* query, or null.
getUserRole(projectId, userId) ==
    IF ~\E p \in projects : p.id = projectId /\ p.deleted_at = Null
    THEN Null
    ELSE LET p == CHOOSE p \in projects : p.id = projectId
             member == {pm \in project_members :
                           pm.project_id = p.id /\ pm.user_id = userId}
         IN IF p.owner_id = userId THEN "owner"
            ELSE IF member # {} THEN (CHOOSE pm \in member : TRUE).role
            ELSE IF p.is_public THEN "viewer"
            ELSE Null

\* Project.create(projectData, ownerId)
ProjectCreate(projectData, ownerId) ==
    \E id \in ProjectIds :
        /\ \A p \in projects : p.id # id
        /\ projects' = projects \cup
               {[id |-> id, name |-> projectData.name, owner_id |-> ownerId,
                 is_public |-> IF Has(projectData, "is_public")
                               THEN projectData.is_public ELSE FALSE,
                 deleted_at |-> Null]}
        /\ Returned("Project.create", ownerId, id)
        /\ UNCHANGED <<flows, project_members>>

ProjectAllowedFields ==
    {"name", "description", "version", "is_public", "service_registry",
     "actor_registry", "integration_types", "settings", "custom_fields"}

\* UPDATE ... SET the fields WHERE the row is the one named and not deleted.
UpdateRows(table, id, fields, updates) ==
    {IF row.id = id /\ row.deleted_at = Null
     THEN [k \in DOMAIN row |-> IF k \in fields THEN updates[k] ELSE row[k]]
     ELSE row : row \in table}

\* Project.update(id, updates, userId)
ProjectUpdate(id, updates, userId) ==
    LET role == getUserRole(id, userId)
        fields == (DOMAIN updates) \cap ProjectAllowedFields
    IN IF role = Null \/ (role # "owner" /\ role # "editor")
       THEN Thrown("Project.update", userId, id,
                   "Insufficient permissions to update project")
       ELSE IF fields = {}
       THEN Thrown("Project.update", userId, id, "No valid fields to update")
       ELSE /\ projects' = UpdateRows(projects, id, fields, updates)
            /\ Returned("Project.update", userId, id)
            /\ UNCHANGED <<flows, project_members>>

\* UPDATE ... SET deleted_at = NOW() WHERE the row is the one named.
SoftDelete(table, id) ==
    {IF row.id = id THEN [row EXCEPT !.deleted_at = Timestamp] ELSE row :
         row \in table}

\* A delete that editors may make too.
ProjectDeleteByEditors(id, userId) ==
    LET role == getUserRole(id, userId)
    IN IF role # "owner" /\ role # "editor"
       THEN Thrown("Project.delete", userId, id,
                   "Only project owner can delete the project")
       ELSE /\ projects' = SoftDelete(projects, id)
            /\ Returned("Project.delete", userId, id)
            /\ UNCHANGED <<flows, project_members>>

\* Project.delete(id, userId)
ProjectDelete(id, userId) ==
    LET role == getUserRole(id, userId)
    IN IF role # "owner"
       THEN Thrown("Project.delete", userId, id,
                   "Only project owner can delete the project")
       ELSE /\ projects' = SoftDelete(projects, id)
            /\ Returned("Project.delete", userId, id)
            /\ UNCHANGED <<flows, project_members>>

\* Project.addMember(projectId, userId, role, addedBy): the insert updates
\* the role of a row that exists, and fails on a role the table's CHECK
\* refuses.
ProjectAddMember(projectId, userId, role, addedBy) ==
    LET adderRole == getUserRole(projectId, addedBy)
    IN IF adderRole # "owner"
       THEN Thrown("Project.addMember", addedBy, projectId,
                   "Only project owner can add members")
       ELSE IF role \notin MemberRoles
       THEN Thrown("Project.addMember", addedBy, projectId,
                   "violates check constraint")
       ELSE /\ project_members' =
                   {pm \in project_members :
                       ~(pm.project_id = projectId /\ pm.user_id = userId)}
                   \cup {[project_id |-> projectId, user_id |-> userId,
                          role |-> role]}
            /\ Returned("Project.addMember", addedBy, projectId)
            /\ UNCHANGED <<projects, flows>>

\* Project.removeMember(projectId, userId, removedBy)
ProjectRemoveMember(projectId, userId, removedBy) ==
    LET removerRole == getUserRole(projectId, removedBy)
    IN IF removerRole # "owner"
       THEN Thrown("Project.removeMember", removedBy, projectId,
                   "Only project owner can remove members")
       ELSE /\ project_members' =
                   {pm \in project_members :
                       ~(pm.project_id = projectId /\ pm.user_id = userId)}
            /\ Returned("Project.removeMember", removedBy, projectId)
            /\ UNCHANGED <<projects, flows>>

\* Flow.create(flowData, projectId, userId)
FlowCreate(flowData, projectId, userId) ==
    LET role == getUserRole(projectId, userId)
    IN IF role = Null \/ (role # "owner" /\ role # "editor")
       THEN Thrown("Flow.create", userId, projectId,
                   "Insufficient permissions to create flow")
       ELSE \E i \in 1..Len(FlowIds) :
                /\ \A f \in flows : f.id # FlowIds[i]
                /\ \A j \in 1..(i - 1) : \E f \in flows : f.id = FlowIds[j]
                /\ flows' = flows \cup
                       {[id |-> FlowIds[i], project_id |-> projectId,
                         name |-> flowData.name, deleted_at |-> Null]}
                /\ Returned("Flow.create", userId, projectId)
                /\ UNCHANGED <<projects, project_members>>

\* Flow.findById(id, userId): the flow's row, or nothing (the empty set)
\* when there is none, it is deleted, or the user has no access to its
\* project.
FlowFindById(id, userId) ==
    {f \in flows : /\ f.id = id
                   /\ f.deleted_at = Null
                   /\ checkAccess(f.project_id, userId)}

FlowAllowedFields ==
    {"name", "description", "priority", "status", "version",
     "service_domain_id", "service_id", "entry_point", "trigger_event",
     "actor_ids", "tags", "steps", "integrations", "business_rules",
     "error_scenarios", "performance_requirements", "notes", "custom_fields"}

\* Flow.update(id, updates, userId)
FlowUpdate(id, updates, userId) ==
    LET found == FlowFindById(id, userId)
    IN IF found = {}
       THEN Thrown("Flow.update", userId, id, "Flow not found or access denied")
       ELSE LET role == getUserRole((CHOOSE f \in found : TRUE).project_id,
                                        userId)
                fields == (DOMAIN updates) \cap FlowAllowedFields
            IN IF role = Null \/ (role # "owner" /\ role # "editor")
               THEN Thrown("Flow.update", userId, id,
                           "Insufficient permissions to update flow")
               ELSE IF fields = {}
               THEN Thrown("Flow.update", userId, id,
                           "No valid fields to update")
               ELSE /\ flows' = UpdateRows(flows, id, fields, updates)
                    /\ Returned("Flow.update", userId, id)
                    /\ UNCHANGED <<projects, project_members>>

\* Flow.delete(id, userId)
FlowDelete(id, userId) ==
    LET found == FlowFindById(id, userId)
    IN IF found = {}
       THEN Thrown("Flow.delete", userId, id, "Flow not found or access denied")
       ELSE LET role == getUserRole((CHOOSE f \in found : TRUE).project_id,
                                        userId)
            IN IF role = Null \/ (role # "owner" /\ role # "editor")
               THEN Thrown("Flow.delete", userId, id,
                           "Insufficient permissions to delete flow")
               ELSE /\ flows' = SoftDelete(flows, id)
                    /\ Returned("Flow.delete", userId, id)
                    /\ UNCHANGED <<projects, project_members>>

\* The requests the clients make.
ProjectUpdates == {[is_public |-> TRUE], [is_public |-> FALSE],
                   [owner_id |-> "cy"]}
FlowUpdates == {[name |-> "renamed"], [project_id |-> "p2"]}

CreateProject ==
    \E userId \in Users : \E projectData \in {[name |-> "project"]} :
        ProjectCreate(projectData, userId) /\ UNCHANGED <<previewVars, editorVars>>

UpdateProject ==
    \E userId \in Users : \E id \in ProjectIds : \E updates \in ProjectUpdates :
        ProjectUpdate(id, updates, userId) /\ UNCHANGED <<previewVars, editorVars>>

DeleteProject ==
    \E userId \in Users : \E id \in ProjectIds :
        ProjectDelete(id, userId) /\ UNCHANGED <<previewVars, editorVars>>

AddMember ==
    \E addedBy \in Users : \E id \in ProjectIds : \E userId \in Users :
        \E role \in MemberRoles \cup {"admin"} :
            ProjectAddMember(id, userId, role, addedBy) /\ UNCHANGED <<previewVars, editorVars>>

RemoveMember ==
    \E removedBy \in Users : \E id \in ProjectIds : \E userId \in Users :
        ProjectRemoveMember(id, userId, removedBy) /\ UNCHANGED <<previewVars, editorVars>>

CreateFlow ==
    \E userId \in Users : \E id \in ProjectIds :
        FlowCreate([name |-> "flow"], id, userId) /\ UNCHANGED <<previewVars, editorVars>>

UpdateFlow ==
    \E userId \in Users : \E i \in 1..Len(FlowIds) : \E updates \in FlowUpdates :
        FlowUpdate(FlowIds[i], updates, userId) /\ UNCHANGED <<previewVars, editorVars>>

DeleteFlow ==
    \E userId \in Users : \E i \in 1..Len(FlowIds) :
        FlowDelete(FlowIds[i], userId) /\ UNCHANGED <<previewVars, editorVars>>

InitServer ==
    /\ flow = createFlow(<<>>)
    /\ project = EmptyCatalog
    /\ clock = 0
    /\ content = NoContent
    /\ InitTables
    /\ EditorClosed

NextServer ==
    \/ CreateProject \/ UpdateProject \/ DeleteProject
    \/ AddMember \/ RemoveMember
    \/ CreateFlow \/ UpdateFlow \/ DeleteFlow

SpecServer == InitServer /\ [][NextServer]_vars

(***************************************************************************)
(* The flow editor (src/src/components/FlowDesigner.jsx) inside the        *)
(* project context (ProjectProvider, in                                    *)
(* src/src/components/ActorRegistry.jsx) over the browser's storage.  A    *)
(* handler is one step: it runs over the state of the render it was made   *)
(* in, and the state updates it queued are applied when it has returned.   *)
(* storage is the JSON text kept under the storage key.                    *)
(***************************************************************************)
MaxSaved == 2

\* generateId('flow'): an identifier no flow of the project has.
FlowKey(n) == "flow-" \o NumStr(n)

\* The editor's createFlow({ projectId }): the factory's flow with its
\* identifier, project and audit times.
NewFlow(projectId, id, now) ==
    createFlow([id |-> id, projectId |-> projectId,
                createdAt |-> DateText(now), updatedAt |-> DateText(now)])

\* A flow an earlier version of the editor has saved: made by the older
\* factory, which knows a single serviceId and neither involved services nor
\* service interactions, and left without steps.
EarlierFlow ==
    [id |-> FlowKey(0), projectId |-> Catalog.id, serviceId |-> "s1",
     createdAt |-> DateText(0), updatedAt |-> DateText(0)]
    @@ Without(Without(createFlow([name |-> "Intake", steps |-> <<>>]),
                       "involvedServiceIds"), "serviceInteractions")

\* The shape of the stored projects.
StoredFlowShape ==
    JObject(<< JField("id", JString), JField("projectId", JString),
               JField("serviceId", JString) >>
            \o FlowShape.fields
            \o << JField("createdAt", JString), JField("updatedAt", JString) >>)

StorageShape ==
    JArray(JObject(<<
        JField("id", JString), JField("name", JString),
        JField("version", JString), JField("updatedAt", JString),
        JField("serviceRegistry", JObject(<< JField("domains", JArray(JObject(<<
            JField("id", JString), JField("name", JString),
            JField("color", JString),
            JField("services", JArray(JObject(<<
                JField("id", JString), JField("name", JString),
                JField("abbreviation", JString) >>))) >>))) >>)),
        JField("actorRegistry", JObject(<< JField("actors", JArray(JObject(<<
            JField("id", JString), JField("abbreviation", JString),
            JField("fullName", JString) >>))) >>)),
        JField("integrationTypes", JObject(<< JField("types", JArray(JObject(<<
            JField("id", JString), JField("name", JString) >>))) >>)),
        JField("flows", JArray(StoredFlowShape)) >>))

\* getAllProjects(): the stored list.
getAllProjects == JSONparse(storage)

\* saveProject(project) of the storage module: stamps the project and
\* replaces the stored project of the same id, or adds it; the text written.
saveProjectToStorage(proj, now) ==
    LET stored == getAllProjects
        stamped == [proj EXCEPT !.updatedAt = DateText(now)]
        existingIndex == {i \in 1..Len(stored) : stored[i].id = proj.id}
    IN JSONstringify(IF existingIndex # {}
                     THEN [i \in 1..Len(stored) |->
                              IF i \in existingIndex THEN stamped ELSE stored[i]]
                     ELSE Append(stored, stamped),
                     StorageShape)

\* addFlow(flowData): the project state with the flow appended.
addFlow(proj, flowData, now) ==
    LET newFlow == [id |-> flowData.id, projectId |-> proj.id,
                    createdAt |-> flowData.createdAt,
                    updatedAt |-> DateText(now)] @@ flowData
    IN [proj EXCEPT !.flows = Append(proj.flows, newFlow),
                    !.updatedAt = DateText(now)]

\* updateFlowField('name', value)
updateFlowField(value) ==
    /\ currentFlow' = [name |-> value] @@ currentFlow
    /\ UNCHANGED <<currentProject, allProjects, storage, outputType, output,
                   showOutput, clipboard, alerted>>

\* handleAddStep
handleAddStep ==
    /\ Len(currentFlow.steps) < MaxSteps
    /\ currentFlow' =
           [currentFlow EXCEPT !.steps =
               Append(currentFlow.steps,
                      createFlowStep(Len(currentFlow.steps) + 1, <<>>))]
    /\ UNCHANGED <<currentProject, allProjects, storage, outputType, output,
                   showOutput, clipboard, alerted>>

\* handleRemoveStep(stepId), for the step at a position: the last step is
\* never removed, and the steps left are numbered again.
handleRemoveStep(at) ==
    /\ currentFlow' =
           IF Len(currentFlow.steps) > 1
           THEN LET kept == Filter(currentFlow.steps,
                                   (1..Len(currentFlow.steps)) \ {at})
                IN [currentFlow EXCEPT !.steps =
                       [i \in 1..Len(kept) |->
                           [kept[i] EXCEPT !.stepNumber = i]]]
           ELSE currentFlow
    /\ UNCHANGED <<currentProject, allProjects, storage, outputType, output,
                   showOutput, clipboard, alerted>>

\* handleLoadFlow(flow), for a saved flow of the project.
handleLoadFlow(at) ==
    /\ currentFlow' = currentProject.flows[at]
    /\ UNCHANGED <<currentProject, allProjects, storage, outputType, output,
                   showOutput, clipboard, alerted>>

\* setOutputType(value)
setOutputType(value) ==
    /\ outputType' = value
    /\ UNCHANGED <<currentFlow, currentProject, allProjects, storage, output,
                   showOutput, clipboard, alerted>>

\* handleSaveFlow: addFlow queues the new project state; saveProject writes
\* the project of the render the handler was made in.
handleSaveFlow ==
    IF ~Truthy(currentFlow.name)
    THEN /\ alerted' = "Please provide a flow name"
         /\ UNCHANGED <<currentFlow, currentProject, allProjects, storage,
                        outputType, output, showOutput, clipboard>>
    ELSE IF Len(currentFlow.steps) = 0
    THEN /\ alerted' = "Please add at least one step to the flow"
         /\ UNCHANGED <<currentFlow, currentProject, allProjects, storage,
                        outputType, output, showOutput, clipboard>>
    ELSE /\ Len(currentProject.flows) < MaxSaved
         /\ currentProject' = addFlow(currentProject, currentFlow, clock)
         /\ storage' = saveProjectToStorage(currentProject, clock)
         /\ allProjects' =
                [i \in 1..Len(allProjects) |->
                    IF allProjects[i].id = currentProject.id
                    THEN [currentProject EXCEPT !.updatedAt = DateText(clock)]
                    ELSE allProjects[i]]
         /\ alerted' = "Flow saved successfully!"
         /\ currentFlow' = NewFlow(currentProject.id,
                                   FlowKey(Len(currentProject.flows) + 2),
                                   clock)
         /\ UNCHANGED <<outputType, output, showOutput, clipboard>>

\* handleGenerateOutput
handleGenerateOutput ==
    IF \/ ~Truthy(currentFlow.name)
       \/ ~Has(currentFlow, "serviceId")
       \/ ~Truthy(currentFlow.serviceId)
    THEN /\ alerted' = "Please complete flow details before generating"
         /\ UNCHANGED <<currentFlow, currentProject, allProjects, storage,
                        outputType, output, showOutput, clipboard>>
    ELSE LET generated ==
                 IF outputType = "drawio"
                 THEN generateDrawioPrompt(currentFlow, currentProject, clock)
                 ELSE generateMarkdownDoc(currentFlow, currentProject, clock)
         IN /\ output' = generated
            /\ showOutput' = TRUE
            /\ clipboard' = generated
            /\ alerted' = "Output copied to clipboard!"
            /\ UNCHANGED <<currentFlow, currentProject, allProjects, storage,
                           outputType>>

EditName ==
    \E value \in {"", "Checkout"} :
        updateFlowField(value) /\ UNCHANGED <<previewVars, serverVars>>

AddStep == handleAddStep /\ UNCHANGED <<previewVars, serverVars>>

RemoveStep ==
    \E at \in 1..Len(currentFlow.steps) :
        handleRemoveStep(at) /\ UNCHANGED <<previewVars, serverVars>>

LoadFlow ==
    \E at \in 1..Len(currentProject.flows) :
        handleLoadFlow(at) /\ UNCHANGED <<previewVars, serverVars>>

ChooseOutput ==
    \E value \in {"drawio", "markdown"} :
        setOutputType(value) /\ UNCHANGED <<previewVars, serverVars>>

SaveFlow == handleSaveFlow /\ UNCHANGED <<previewVars, serverVars>>

GenerateOutput == handleGenerateOutput /\ UNCHANGED <<previewVars, serverVars>>

\* The editor once the project context has loaded the stored projects: a
\* project without flows, or with the flow an earlier version saved.
InitEditor ==
    /\ flow = createFlow(<<>>)
    /\ project = EmptyCatalog
    /\ clock = 0
    /\ content = NoContent
    /\ InitTables
    /\ storage \in {JSONstringify(<< Catalog @@ [updatedAt |-> DateText(0),
                                                 flows |-> saved] >>,
                                  StorageShape) :
                       saved \in {<<>>, << EarlierFlow >>}}
    /\ allProjects = getAllProjects
    /\ currentProject = getAllProjects[1]
    /\ currentFlow = NewFlow(Catalog.id, FlowKey(Len(getAllProjects[1].flows) + 1), 0)
    /\ outputType = "drawio"
    /\ output = <<>>
    /\ showOutput = FALSE
    /\ clipboard = <<>>
    /\ alerted = ""

NextEditor ==
    \/ EditName \/ AddStep \/ RemoveStep \/ LoadFlow \/ ChooseOutput
    \/ SaveFlow \/ GenerateOutput \/ Tick

SpecEditor == InitEditor /\ [][NextEditor]_vars

\* generateId('flow') of duplicateFlow: an identifier that neither a flow of
\* the project nor the editor's flow has.
FreshFlowKey ==
    LET used == {currentProject.flows[i].id : i \in 1..Len(currentProject.flows)}
                \cup {currentFlow.id}
        free == {k \in 1..(Cardinality(used) + 1) : FlowKey(k) \notin used}
    IN FlowKey(CHOOSE k \in free : \A j \in free : k <= j)

\* duplicateFlow(flowId) of the project context, for the saved flow at a
\* position: a copy under a new identifier is appended.
duplicateFlow(at) ==
    LET originalFlow == currentProject.flows[at]
        duplicatedFlow ==
            [originalFlow EXCEPT !.id = FreshFlowKey,
                                 !.name = originalFlow.name \o " (Copy)",
                                 !.createdAt = DateText(clock),
                                 !.updatedAt = DateText(clock)]
    IN /\ Len(currentProject.flows) < MaxSaved
       /\ currentProject' =
              [currentProject EXCEPT
                  !.flows = Append(currentProject.flows, duplicatedFlow),
                  !.updatedAt = DateText(clock)]
       /\ UNCHANGED <<currentFlow, allProjects, storage, outputType, output,
                      showOutput, clipboard, alerted>>

DuplicateFlow ==
    \E at \in 1..Len(currentProject.flows) :
        duplicateFlow(at) /\ UNCHANGED <<previewVars, serverVars>>

\* The editor together with the duplication the project context offers.
NextEditorDuplicating == NextEditor \/ DuplicateFlow

SpecEditorDuplicating == InitEditor /\ [][NextEditorDuplicating]_vars

(***************************************************************************)
(* The step list of the editor, event by event.  A handler is a closure of *)
(* the render it was made in: it reads currentFlow of that render, and the *)
(* update it queues is applied to the state of the time.  Events handled   *)
(* before the component renders again share the render's currentFlow.      *)
(***************************************************************************)
MaxEdited == 4

\* generateId('step'): an identifier no step of the list has.
StepKey(n) == "step-" \o NumStr(n)

FreshStepKey(steps) ==
    LET free == {k \in 1..(Len(steps) + 1) :
                    \A i \in 1..Len(steps) : steps[i].id # StepKey(k)}
    IN StepKey(CHOOSE k \in free : \A j \in free : k <= j)

\* handleAddStep of a render: the step is made with the number after the
\* render's steps, and appended to the steps of the time.
AddStepUpdate(rendered, prev) ==
    LET newStep == createFlowStep(Len(rendered.steps) + 1,
                                  [id |-> FreshStepKey(prev.steps)])
    IN [prev EXCEPT !.steps = Append(prev.steps, newStep)]

\* handleRemoveStep(stepId) of a render: nothing when the render has a
\* single step; else the step is dropped from the steps of the time and
\* the rest numbered again.
RemoveStepUpdate(rendered, prev, stepId) ==
    IF Len(rendered.steps) > 1
    THEN LET kept == Filter(prev.steps,
                            {i \in 1..Len(prev.steps) : prev.steps[i].id # stepId})
         IN [prev EXCEPT !.steps =
                [i \in 1..Len(kept) |-> [kept[i] EXCEPT !.stepNumber = i]]]
    ELSE prev

\* The events the rendered step list offers: Add Step, and Remove on each
\* step shown.
StepEvents(rendered) ==
    {[kind |-> "add", stepId |-> ""]}
    \cup {[kind |-> "remove", stepId |-> rendered.steps[i].id] :
            i \in 1..Len(rendered.steps)}

HandleStepEvent(event, rendered, prev) ==
    IF event.kind = "add" THEN AddStepUpdate(rendered, prev)
    ELSE RemoveStepUpdate(rendered, prev, event.stepId)

\* One event, after which the component renders.
StepEvent ==
    /\ \E event \in StepEvents(currentFlow) :
          currentFlow' = HandleStepEvent(event, currentFlow, currentFlow)
    /\ Len(currentFlow'.steps) <= MaxEdited
    /\ UNCHANGED <<currentProject, allProjects, storage, outputType, output,
                   showOutput, clipboard, alerted>>
    /\ UNCHANGED <<previewVars, serverVars>>

\* Two events handled before the component renders again.
StepEventsBeforeRender ==
    /\ \E first, second \in StepEvents(currentFlow) :
          currentFlow' =
              HandleStepEvent(second, currentFlow,
                              HandleStepEvent(first, currentFlow, currentFlow))
    /\ Len(currentFlow'.steps) <= MaxEdited
    /\ UNCHANGED <<currentProject, allProjects, storage, outputType, output,
                   showOutput, clipboard, alerted>>
    /\ UNCHANGED <<previewVars, serverVars>>

\* handleUpdateStep(stepId, 'action', value)
UpdateStep ==
    /\ \E at \in 1..Len(currentFlow.steps), value \in {"", "Check"} :
          currentFlow' = [currentFlow EXCEPT !.steps[at].action = value]
    /\ UNCHANGED <<currentProject, allProjects, storage, outputType, output,
                   showOutput, clipboard, alerted>>
    /\ UNCHANGED <<previewVars, serverVars>>

\* The editor on a new flow: one step, numbered 1.
InitStepEditor ==
    /\ flow = createFlow(<<>>)
    /\ project = EmptyCatalog
    /\ clock = 0
    /\ content = NoContent
    /\ InitTables
    /\ storage = JSONstringify(<< Catalog @@ [updatedAt |-> DateText(0),
                                              flows |-> <<>>] >>, StorageShape)
    /\ allProjects = getAllProjects
    /\ currentProject = getAllProjects[1]
    /\ currentFlow =
           [NewFlow(Catalog.id, FlowKey(1), 0) EXCEPT
               !.steps = << createFlowStep(1, [id |-> StepKey(1)]) >>]
    /\ outputType = "drawio"
    /\ output = <<>>
    /\ showOutput = FALSE
    /\ clipboard = <<>>
    /\ alerted = ""

NextStepEditor == StepEvent \/ StepEventsBeforeRender \/ UpdateStep

SpecStepEditor == InitStepEditor /\ [][NextStepEditor]_vars

\* The same editor when the component renders after every event.
SpecStepEditorRendered == InitStepEditor /\ [][StepEvent \/ UpdateStep]_vars

(***************************************************************************)
(* Reading a generated text.                                               *)
(***************************************************************************)
LineFormats == {"drawio", "markdown", "matrix", "sequence", "architecture"}

\* Some line of the text has the piece s.
HasPiece(out, s) ==
    \E i \in 1..Len(out) : \E j \in 1..Len(out[i]) : out[i][j] = s

\* The members of a set of positions, in increasing order.
Ascending(S) ==
    [k \in 1..Cardinality(S) |->
        CHOOSE i \in S : Cardinality({j \in S : j <= i}) = k]

\* The run of non-empty lines that follows line number at.
BlockAfter(out, at) ==
    LET stops == {j \in (at + 1)..(Len(out) + 1) :
                     j = Len(out) + 1 \/ out[j] = <<>>}
        stop == CHOOSE j \in stops : \A k \in stops : j <= k
    IN SubSeq(out, at + 1, stop - 1)

\* The first position of a line in the text, 0 when it does not occur.
LineAt(out, line) ==
    LET hits == {i \in 1..Len(out) : out[i] = line}
    IN IF hits = {} THEN 0 ELSE CHOOSE i \in hits : \A j \in hits : i <= j

\* Lines of the prompt.
IsStepHeading(line) == Len(line) = 3 /\ line[1] = "Step " /\ line[3] = ":"
IsStepsHeader(line) == Len(line) = 3 /\ line[1] = "Process Steps ("
IsRectangleCount(line) ==
    Len(line) = 3 /\ line[3] = " total rectangles needed)"

\* Lines of the sequence graph.
IsParticipant(line) == Len(line) >= 1 /\ line[1] = "    participant "
IsRequest(line) == Len(line) = 6 /\ line[3] \in {"->>+", "->>"}
IsReply(line) == Len(line) = 6 /\ line[3] = "-->>-"
IsAlt(line) == Len(line) >= 1 /\ line[1] = "    alt "
IsElse(line) == Len(line) >= 1 /\ line[1] = "    else "
IsEnd(line) == line = <<"    end">>
IsNote(line) ==
    Len(line) >= 1 /\ line[1] \in {"        Note right of ", "    Note over "}

\* Lines of the topology graph.
IsNode(line) == Len(line) = 5 /\ line[3] = "[\""
IsEdge(line) == Len(line) = 6 /\ line[5] = "| "

\* Lines of the matrix.
IsMatrixHeader(line) == Len(line) >= 1 /\ line[1] = "| From \\ To | "
IsMatrixRow(line) == Len(line) >= 3 /\ line[1] = "| **"
IsCellEnd(piece) == piece \in {" - |", " |"}

\* The cells of a row: the pieces after the row label, cut after each piece
\* that closes a cell.
RECURSIVE Cells(_)
Cells(pieces) ==
    IF Len(pieces) = 0 THEN <<>>
    ELSE LET ends == {i \in 1..Len(pieces) : IsCellEnd(pieces[i])}
         IN IF ends = {} THEN << pieces >>
            ELSE LET e == CHOOSE i \in ends : \A j \in ends : i <= j
                 IN << SubSeq(pieces, 1, e) >>
                    \o Cells(SubSeq(pieces, e + 1, Len(pieces)))

(***************************************************************************)
(* Claims.                                                                 *)
(***************************************************************************)
\* C1: the prompt has exactly one "Step <n>:" paragraph and exactly one
\* line of the "Steps to create separately" list per element of flow.steps,
\* both in array order, and the numbers of the "Process Steps (N)" header
\* and of the "(N total rectangles needed)" line equal flow.steps.length.
C1_StepCount ==
    content.format = "drawio" =>
        LET out == content.lines
            n == Len(flow.steps)
            headings == Ascending({i \in 1..Len(out) : IsStepHeading(out[i])})
            listed == BlockAfter(out, LineAt(out, <<"   Steps to create separately:">>))
            headers == SelectSeq(out, IsStepsHeader)
            counts == SelectSeq(out, IsRectangleCount)
        IN /\ Len(headings) = n
           /\ \A k \in 1..n :
                 /\ out[headings[k]][2] = NumStr(flow.steps[k].stepNumber)
                 /\ out[headings[k] + 2] = <<"* Action: ", flow.steps[k].action>>
           /\ LineAt(out, <<"   Steps to create separately:">>) # 0
           /\ Len(listed) = n
           /\ \A k \in 1..n :
                 /\ listed[k][2] = NumStr(flow.steps[k].stepNumber)
                 /\ listed[k][4] = flow.steps[k].action
           /\ Len(headers) = 1 /\ headers[1][2] = NumStr(n)
           /\ Len(counts) = 1 /\ counts[1][2] = NumStr(n)

\* A prompt for two steps, one of them a decision step (whose "Step <n>:"
\* line under requirement 5 is no step paragraph).
C1_Witness ==
    /\ content.format = "drawio"
    /\ Len(flow.steps) = 2
    /\ flow.steps[2].isDecisionPoint
    /\ Len(flow.steps[2].conditionalPaths) = 2

\* The ids a generator resolves against the catalog, by kind.
Range(items) == {items[i] : i \in 1..Len(items)}

StepServiceIds(f) == UNION {Range(f.steps[i].serviceIds) : i \in 1..Len(f.steps)}
InvolvedIds(f) == Range(ListOrEmpty(f, "involvedServiceIds"))
EndpointIds(records) ==
    {records[i].fromServiceId : i \in 1..Len(records)}
    \cup {records[i].toServiceId : i \in 1..Len(records)}

ResolvedServiceIds(format, f) ==
    IF format = "drawio"
    THEN InvolvedIds(f) \cup StepServiceIds(f)
         \cup EndpointIds(ListOrEmpty(f, "serviceInteractions"))
         \cup EndpointIds(f.integrations)
    ELSE IF format = "markdown"
    THEN StepServiceIds(f) \cup EndpointIds(f.integrations)
    ELSE IF format = "matrix"
    THEN IF InvolvedIds(f) = {} THEN {}
         ELSE InvolvedIds(f) \cup EndpointIds(ListOrEmpty(f, "serviceInteractions"))
    ELSE IF format = "sequence"
    THEN StepServiceIds(f)
    ELSE InvolvedIds(f) \cup EndpointIds(ListOrEmpty(f, "serviceInteractions"))

ResolvedActorIds(format, f) ==
    IF format \in {"drawio", "markdown"}
    THEN Range(f.actorIds) \cup {f.steps[i].actorId : i \in 1..Len(f.steps)}
    ELSE IF format = "sequence"
    THEN {f.steps[i].actorId : i \in 1..Len(f.steps)}
    ELSE {}

ResolvedTypeIds(format, f) ==
    IF format \in {"drawio", "markdown"}
    THEN {f.steps[i].communicationTypeId : i \in 1..Len(f.steps)}
    ELSE {}

ResolvedDomainIds(format, f) ==
    IF format = "drawio" /\ Truthy(f.serviceDomainId)
    THEN {f.serviceDomainId} ELSE {}

Missing(ids, catalogued) == {id \in ids : FindById(catalogued, id) = 0}

\* The text shows the label wherever an id of the kind is missing, and shows
\* none of the missing ids themselves.
ShowsSentinel(out, missing, label) ==
    /\ missing # {} => HasPiece(out, label)
    /\ \A id \in missing : Truthy(id) => ~HasPiece(out, id)

\* C2: for every service, actor, integration-type or domain id of the flow
\* that is absent from the catalog, every generator renders the fixed
\* sentinel label of the id's kind ("Unknown Service", "Unknown Actor",
\* "Unknown Type", "Unknown Domain"), never the raw id and no other label.
C2_SentinelInEveryFormat ==
    content.format \in LineFormats =>
        LET out == content.lines
            fmt == content.format
        IN /\ ShowsSentinel(out, Missing(ResolvedServiceIds(fmt, flow),
                                         AllServices(project)),
                            "Unknown Service")
           /\ ShowsSentinel(out, Missing(ResolvedActorIds(fmt, flow),
                                         project.actorRegistry.actors),
                            "Unknown Actor")
           /\ ShowsSentinel(out, Missing(ResolvedTypeIds(fmt, flow),
                                         project.integrationTypes.types),
                            "Unknown Type")
           /\ ShowsSentinel(out, Missing(ResolvedDomainIds(fmt, flow),
                                         project.serviceRegistry.domains),
                            "Unknown Domain")
           /\ ~HasPiece(out, "Unknown")
           /\ ~HasPiece(out, "UNK")

\* The generation-timestamp line of the prompt and of the document.
IsTimestamp(format, line) ==
    \/ format = "drawio" /\ Len(line) = 2 /\ line[1] = "Generated: "
    \/ format = "markdown" /\ Len(line) = 3 /\ line[1] = "*Generated: "

\* Two texts of a format that differ, if at all, in one timestamp line.
SameButTimestamp(format, a, b) ==
    /\ Len(a) = Len(b)
    /\ \A i \in 1..Len(a) :
          a[i] # b[i] => IsTimestamp(format, a[i]) /\ IsTimestamp(format, b[i])
    /\ Cardinality({i \in 1..Len(a) : a[i] # b[i]}) <= 1

C4_InputsUnchanged == [][flow' = flow /\ project' = project]_vars

\* The matrix was generated for a flow stored without an involved-service
\* list, which the generator replaces by an empty list of its own.
C4_Witness ==
    /\ content.format = "matrix"
    /\ ~Has(flow, "involvedServiceIds")

\* The labels of the interactions from one service to another, in stored
\* order: the method, or the interaction kind when the method is empty.
LabelsFromTo(f, fromId, toId) ==
    LET all == ListOrEmpty(f, "serviceInteractions")
        at == Ascending({i \in 1..Len(all) :
                            /\ all[i].fromServiceId = fromId
                            /\ all[i].toServiceId = toId})
    IN [k \in 1..Len(at) |->
           IF all[at[k]].method # "" THEN all[at[k]].method
           ELSE all[at[k]].interactionType]

\* A non-empty cell: a blank, the labels separated by ", ", and the bar.
CellLists(cell, labels) ==
    /\ Len(cell) = 2 * Len(labels) + 1
    /\ cell[1] = " "
    /\ cell[Len(cell)] = " |"
    /\ \A k \in 1..Len(labels) :
          /\ cell[2 * k] = labels[k]
          /\ k < Len(labels) => cell[2 * k + 1] = ", "

\* C5: for N > 0 involved services the matrix is an N by N table in stored
\* order; a cell of a service with itself is the placeholder; any other cell
\* is non-empty exactly when some interaction goes from the row's service
\* to the column's, and then lists the method (or else the kind) of every
\* such interaction, comma-joined.  Without involved services the text is
\* the "no services" notice and has no table.
C5_Matrix ==
    content.format = "matrix" =>
        LET out == content.lines
            ids == IF Has(flow, "involvedServiceIds")
                   THEN flow.involvedServiceIds ELSE <<>>
            n == Len(ids)
            rows == SelectSeq(out, IsMatrixRow)
            headers == SelectSeq(out, IsMatrixHeader)
        IN IF n = 0
           THEN /\ Len(rows) = 0 /\ Len(headers) = 0
                /\ out[Len(out)] = <<"No services involved in this flow.">>
           ELSE /\ Len(headers) = 1
                /\ Len(headers[1]) = 2 * n + 1
                /\ \A c \in 1..n :
                      headers[1][2 * c] = getServiceName(project, ids[c])
                /\ Len(rows) = n
                /\ \A r \in 1..n :
                      LET cells == Cells(SubSeq(rows[r], 4, Len(rows[r])))
                      IN /\ rows[r][2] = getServiceName(project, ids[r])
                         /\ Len(cells) = n
                         /\ \A c \in 1..n :
                               LET labels == LabelsFromTo(flow, ids[r], ids[c])
                               IN IF ids[r] = ids[c]
                                  THEN cells[c] = <<" - |">>
                                  ELSE IF Len(labels) = 0
                                  THEN cells[c] = <<" |">>
                                  ELSE CellLists(cells[c], labels)

\* The matrix of involved services s1, s2 with two interactions s1 -> s2,
\* one of them without a method, and none s2 -> s1.
C5_Witness ==
    /\ content.format = "matrix"
    /\ Has(flow, "involvedServiceIds")
    /\ flow.involvedServiceIds = <<"s1", "s2">>
    /\ Len(LabelsFromTo(flow, "s1", "s2")) = 2
    /\ \E k \in 1..2 : LabelsFromTo(flow, "s1", "s2")[k] = "asynchronous"
    /\ Len(LabelsFromTo(flow, "s2", "s1")) = 0

\* C6: for steps = [] the sequence graph is a well-formed block without
\* participants, message lines, alt/else/end lines and notes.
C6_EmptySequence ==
    (content.format = "sequence" /\ Len(flow.steps) = 0) =>
        LET out == content.lines
        IN /\ Len(out) >= 3
           /\ out[1] = <<"~~~mermaid">>
           /\ out[2] = <<"sequenceDiagram">>
           /\ out[Len(out)] = <<"~~~">>
           /\ \A i \in 1..Len(out) :
                 /\ ~IsParticipant(out[i])
                 /\ ~IsRequest(out[i]) /\ ~IsReply(out[i])
                 /\ ~IsAlt(out[i]) /\ ~IsElse(out[i]) /\ ~IsEnd(out[i])
                 /\ ~IsNote(out[i])

\* The sequence graph of a flow without steps that declares an actor and
\* involved services.
C6_Witness ==
    /\ content.format = "sequence"
    /\ Len(flow.steps) = 0
    /\ Len(flow.actorIds) > 0
    /\ Len(flow.involvedServiceIds) > 0

\* C7: for steps = [] the prompt contains the text "No steps defined".
C7_NoStepsDefined ==
    (content.format = "drawio" /\ Len(flow.steps) = 0) =>
        HasPiece(content.lines, "No steps defined")

\* The number of decision steps among the first s steps.
DecisionsUpTo(f, s) ==
    Cardinality({i \in 1..s : f.steps[i].isDecisionPoint})

\* C8: in the sequence graph every request and reply line of a decision
\* step lies between that step's alt line and its end line, and inside the
\* block the first conditional path is one note and each further path one
\* else line.
C8_DecisionMessagesInBlock ==
    content.format = "sequence" =>
        LET out == content.lines
            alts == Ascending({i \in 1..Len(out) : IsAlt(out[i])})
            ends == Ascending({i \in 1..Len(out) : IsEnd(out[i])})
        IN \A s \in 1..Len(flow.steps) :
              flow.steps[s].isDecisionPoint =>
                  LET k == DecisionsUpTo(flow, s)
                      paths == flow.steps[s].conditionalPaths
                      inside == {i \in 1..Len(out) : alts[k] < i /\ i < ends[k]}
                  IN /\ k <= Len(alts) /\ k <= Len(ends)
                     /\ \A i \in 1..Len(out) :
                           (IsRequest(out[i]) /\ out[i][6] = flow.steps[s].action)
                           => /\ i \in inside
                              /\ (i < Len(out) /\ IsReply(out[i + 1]))
                                     => (i + 1) \in inside
                     /\ Cardinality({i \in inside : IsNote(out[i])})
                            = (IF Len(paths) > 0 THEN 1 ELSE 0)
                     /\ Cardinality({i \in inside : IsElse(out[i])})
                            = (IF Len(paths) > 0 THEN Len(paths) - 1 ELSE 0)

\* The number of alt lines minus the number of end lines among the first i
\* lines.
OpenBlocks(out, i) ==
    Cardinality({j \in 1..i : IsAlt(out[j])})
    - Cardinality({j \in 1..i : IsEnd(out[j])})

\* C9: in the sequence graph, reading the lines in order, the end lines
\* never outnumber the alt lines, every else line lies in an open alt
\* block, and at the end both counts equal the number of decision steps.
C9_BalancedBlocks ==
    content.format = "sequence" =>
        LET out == content.lines
        IN /\ \A i \in 1..Len(out) :
                 /\ OpenBlocks(out, i) >= 0
                 /\ IsElse(out[i]) => OpenBlocks(out, i) >= 1
           /\ Cardinality({i \in 1..Len(out) : IsAlt(out[i])})
                  = DecisionsUpTo(flow, Len(flow.steps))
           /\ Cardinality({i \in 1..Len(out) : IsEnd(out[i])})
                  = DecisionsUpTo(flow, Len(flow.steps))

\* The sequence graph of a decision step without conditional paths followed
\* by a decision step with two.
C9_Witness ==
    /\ content.format = "sequence"
    /\ Len(flow.steps) = 2
    /\ flow.steps[1].isDecisionPoint /\ Len(flow.steps[1].conditionalPaths) = 0
    /\ flow.steps[2].isDecisionPoint /\ Len(flow.steps[2].conditionalPaths) = 2

\* C10: the topology graph declares one node per entry of the involved
\* services, in stored order, whatever the steps reference, and draws one
\* edge per service interaction: "-->" for synchronous, "-.->" for
\* asynchronous, "==>" for any other kind, labelled with the method or,
\* when that is empty, the kind; without interactions there is no edge.
C10_Topology ==
    content.format = "architecture" =>
        LET out == content.lines
            ids == IF Has(flow, "involvedServiceIds")
                   THEN flow.involvedServiceIds ELSE <<>>
            xs == IF Has(flow, "serviceInteractions")
                  THEN flow.serviceInteractions ELSE <<>>
            nodes == SelectSeq(out, IsNode)
            edges == SelectSeq(out, IsEdge)
        IN /\ Len(nodes) = Len(ids)
           /\ \A i \in 1..Len(ids) :
                 nodes[i] = <<"    ", ArchitectureService(project, ids[i]).abbr,
                              "[\"", ArchitectureService(project, ids[i]).name,
                              "\"]">>
           /\ Len(edges) = Len(xs)
           /\ \A k \in 1..Len(xs) :
                 /\ edges[k][2] = ArchitectureService(project, xs[k].fromServiceId).abbr
                 /\ edges[k][6] = ArchitectureService(project, xs[k].toServiceId).abbr
                 /\ edges[k][3] =
                        (CASE xs[k].interactionType = "synchronous" -> " -->|"
                           [] xs[k].interactionType = "asynchronous" -> " -.->|"
                           [] OTHER -> " ==>|")
                 /\ edges[k][4] = (IF xs[k].method # "" THEN xs[k].method
                                   ELSE xs[k].interactionType)
           /\ Len(out) = 6 + Len(ids) + Len(xs)

\* The topology graph of a flow whose only involved service is not the one
\* its step references, with an asynchronous and an event-driven
\* interaction.
C10_Witness ==
    /\ content.format = "architecture"
    /\ Has(flow, "involvedServiceIds") /\ Has(flow, "serviceInteractions")
    /\ flow.involvedServiceIds = <<"s2">>
    /\ flow.steps[1].serviceIds = <<"s1">>
    /\ Len(flow.serviceInteractions) = 2
    /\ flow.serviceInteractions[1].interactionType = "asynchronous"
    /\ flow.serviceInteractions[2].interactionType = "event-driven"

\* The first piece of an entry line of a sub-list of the prompt.
IsEntry(line) == Len(line) >= 2 /\ line[1] \in {"  - ", "     - ", "   * "}

\* The line at position i is followed by an entry of its sub-list.
EntryFollows(out, i) == i < Len(out) /\ IsEntry(out[i + 1])

\* The heading at position i is followed by its rule and then, after at
\* most one empty line, by a line of text.
TextFollows(out, i) ==
    /\ i + 2 <= Len(out)
    /\ out[i + 1] = <<Dash>>
    /\ \/ out[i + 2] # <<>>
       \/ (i + 3 <= Len(out) /\ out[i + 2] = <<>> /\ out[i + 3] # <<>>)

\* The lines of the prompt that introduce an optional sub-list.
ListIntroductions ==
    { <<"* Involved Services:">>, <<"* Actors Involved:">>,
      <<"* Services Involved:">>, <<"  Paths:">>, <<"* Notifications:">>,
      <<"   Service interactions to visualize:">>,
      <<"   * Assign consistent colors to each service:">> }

\* The headings of the optional sections of the prompt.
SectionHeadings ==
    { <<"Service Interactions (Detailed):">>, <<"Integration Points:">>,
      <<"Business Rules:">>, <<"Error Handling:">>,
      <<"Performance Requirements:">>, <<"Additional Notes:">> }

\* The optional section or sub-list a line of the prompt opens is filled in
\* by the flow.
FilledIn(f, line) ==
    IF line = <<"* Involved Services:">>
       \/ line = <<"   * Assign consistent colors to each service:">>
    THEN Len(ListOrEmpty(f, "involvedServiceIds")) > 0
    ELSE IF line = <<"* Actors Involved:">> THEN Len(f.actorIds) > 0
    ELSE IF line = <<"* Services Involved:">>
    THEN \E s \in 1..Len(f.steps) : Len(f.steps[s].serviceIds) > 0
    ELSE IF line = <<"  Paths:">>
    THEN \E s \in 1..Len(f.steps) :
            f.steps[s].isDecisionPoint /\ Len(f.steps[s].conditionalPaths) > 0
    ELSE IF line = <<"* Notifications:">>
    THEN \E s \in 1..Len(f.steps) : Len(f.steps[s].notifications) > 0
    ELSE IF line = <<"   Service interactions to visualize:">>
            \/ line = <<"Service Interactions (Detailed):">>
    THEN Len(ListOrEmpty(f, "serviceInteractions")) > 0
    ELSE IF line = <<"Integration Points:">>
    THEN Len(ListOrEmpty(f, "integrations")) > 0
    ELSE IF line = <<"Business Rules:">> THEN Len(f.businessRules) > 0
    ELSE IF line = <<"Error Handling:">> THEN Len(f.errorScenarios) > 0
    ELSE IF line = <<"Performance Requirements:">>
    THEN \/ Truthy(f.performanceRequirements.responseTime)
         \/ Truthy(f.performanceRequirements.throughput)
         \/ Truthy(f.performanceRequirements.availability)
    ELSE IF line = <<"Additional Notes:">> THEN Truthy(f.notes)
    ELSE TRUE

ColorsLine == <<"   * Assign consistent colors to each service:">>

ValuesAt(out, labels, at) ==
    {out[i][at] : i \in {j \in 1..Len(out) :
                            Len(out[j]) >= at /\ out[j][1] \in labels}}

C13_JSONPassthrough ==
    content.format \in {"json", "export"} => JSONparse(content.json) = flow

\* C13, amended: the text of the download handler's "json" format parses to
\* a value equal to the flow itself; the text of generateJSONExport parses
\* to an object of exactly the members flow, project, exportedAt and
\* format, whose flow member equals the flow and whose project member
\* holds the id, name and version of the project.
C13_JSONDownload ==
    /\ content.format = "json" => JSONparse(content.json) = flow
    /\ content.format = "export" =>
          LET parsed == JSONparse(content.json)
          IN /\ DOMAIN parsed = {"flow", "project", "exportedAt", "format"}
             /\ parsed.flow = flow
             /\ parsed.project = [id |-> project.id, name |-> project.name,
                                  version |-> project.version]
             /\ parsed.format = "Microservices Flow v1.0"

\* The JSON download of a flow all of whose optional parts are filled in,
\* with a decision step that has conditional paths.
C13_Witness ==
    /\ content.format = "json"
    /\ Len(flow.steps) = 1 /\ Len(flow.steps[1].conditionalPaths) > 0
    /\ Len(flow.tags) > 0 /\ Len(flow.serviceInteractions) > 0
    /\ Len(flow.integrations) > 0 /\ Len(flow.businessRules) > 0
    /\ Len(flow.errorScenarios) > 0 /\ Truthy(flow.notes)

\* Lines of the document.
IsStepSubsection(line) == Len(line) = 4 /\ line[1] = "### Step "

\* The lines that open the requirements block of the prompt and its nine
\* numbered parts.
RequirementsBlock ==
    { <<"DRAW.IO DIAGRAM REQUIREMENTS:">>,
      <<"Please create a draw.io XML file with the following specifications:">>,
      <<"1. SWIMLANES:">>,
      <<"2. PROCESS BOXES (CRITICAL - EACH STEP SEPARATE):">>,
      <<"3. SERVICE INTERACTIONS:">>, <<"4. DATA FLOW LABELS:">>,
      <<"5. DECISION POINTS:">>, <<"6. AUTOMATIONS & INTEGRATIONS:">>,
      <<"7. COLOR CODING:">>, <<"8. LAYOUT & SPACING:">>, <<"9. LEGEND:">> }

\* C14: the document has exactly one "### Step" subsection per element of
\* flow.steps, in array order, has none of the lines of the nine-part
\* requirements block, and its last line is the generation timestamp.
C14_Document ==
    content.format = "markdown" =>
        LET out == content.lines
            n == Len(flow.steps)
            subsections == Ascending({i \in 1..Len(out) : IsStepSubsection(out[i])})
        IN /\ Len(subsections) = n
           /\ \A k \in 1..n :
                 /\ out[subsections[k]][2] = NumStr(flow.steps[k].stepNumber)
                 /\ out[subsections[k]][4] = flow.steps[k].action
           /\ \A i \in 1..Len(out) : out[i] \notin RequirementsBlock
           /\ out[Len(out)] = <<"*Generated: ", DateText(clock), "*">>

\* The document of two steps, the first without a service and the second a
\* decision step; and the prompt of the same flows does carry the block.
C14_Witness ==
    /\ content.format = "markdown"
    /\ Len(flow.steps) = 2
    /\ Len(flow.steps[1].serviceIds) = 0
    /\ flow.steps[2].isDecisionPoint
    /\ \A line \in RequirementsBlock :
          LineAt(generateDrawioPrompt(flow, project, clock), line) # 0

(***************************************************************************)
(* C15: project roles bound what a user can change in the backend.         *)
(***************************************************************************)
EditorOperations == {"Project.update", "Flow.create", "Flow.update", "Flow.delete"}
OwnerOperations == {"Project.delete", "Project.addMember", "Project.removeMember"}

PermissionErrors ==
    {"Insufficient permissions to update project",
     "Only project owner can delete the project",
     "Only project owner can add members",
     "Only project owner can remove members",
     "Insufficient permissions to create flow",
     "Insufficient permissions to update flow",
     "Insufficient permissions to delete flow"}

\* The live flow a call names, if any.
FlowNamed(call) == {f \in flows : f.id = call.id /\ f.deleted_at = Null}

\* The role, when a call is made, of its user for the project it addresses:
\* the project named, or the project of the flow named.
RoleBefore(call) ==
    IF call.op \in {"Flow.update", "Flow.delete"}
    THEN IF FlowNamed(call) = {} THEN Null
         ELSE getUserRole((CHOOSE f \in FlowNamed(call) : TRUE).project_id,
                          call.userId)
    ELSE getUserRole(call.id, call.userId)

\* C15: in every step of the backend, with role the role of the call's user
\* before the step: a call that throws leaves projects, flows and
\* project_members unchanged; a Project.update, Flow.create, Flow.update or
\* Flow.delete by a user who is neither owner nor editor (a viewer, by
\* membership or through is_public, or a user with no role) throws and
\* changes nothing; a Project.delete, Project.addMember or
\* Project.removeMember by a user who is not owner (an editor included)
\* throws and changes nothing; and an owner's call, or an editor's call of
\* one of the four operations open to editors, is never refused for its
\* permissions, nor as addressing no flow when it names a live flow.
C15_RolesBound ==
    [][LET call == response'
           role == RoleBefore(call)
       IN /\ call.error # "" => UNCHANGED Tables
          /\ Tables' # Tables => call.error = ""
          /\ (call.op \in EditorOperations /\ role \notin {"owner", "editor"})
                 => (call.error # "" /\ UNCHANGED Tables)
          /\ (call.op \in OwnerOperations /\ role # "owner")
                 => (call.error # "" /\ UNCHANGED Tables)
          /\ (\/ call.op \in OwnerOperations /\ role = "owner"
              \/ call.op \in EditorOperations /\ role \in {"owner", "editor"})
                 => /\ call.error \notin PermissionErrors
                    /\ call.error = "Flow not found or access denied"
                           => FlowNamed(call) = {}]_vars

\* An editor by membership of a live public project has just been refused
\* the project's deletion, after a flow of the project was renamed and
\* deleted.
C15_Witness ==
    /\ response.op = "Project.delete"
    /\ response.error = "Only project owner can delete the project"
    /\ getUserRole(response.id, response.userId) = "editor"
    /\ \E p \in projects : p.id = response.id /\ p.is_public
    /\ \E f \in flows : f.name = "renamed" /\ f.deleted_at = Timestamp

(***************************************************************************)
(* C16: saving a flow in the editor.                                       *)
(***************************************************************************)
\* The project of the current project's id in the storage.
StoredProject(text) ==
    LET stored == JSONparse(text)
    IN stored[CHOOSE i \in 1..Len(stored) : stored[i].id = currentProject.id]

\* C16: when handleSaveFlow runs on a flow with a name and at least one
\* step, the flow is appended to the current project's flows and the project
\* this run of the handler writes to the storage contains it; when the name
\* or the step list is empty, the current project, the storage and the
\* editor's flow stay as they are.
C16_SavedFlowStored ==
    [][SaveFlow =>
          IF Truthy(currentFlow.name) /\ Len(currentFlow.steps) > 0
          THEN /\ Len(currentProject'.flows) = Len(currentProject.flows) + 1
               /\ SubSeq(currentProject'.flows, 1, Len(currentProject.flows))
                      = currentProject.flows
               /\ currentProject'.flows[Len(currentProject'.flows)].id
                      = currentFlow.id
               /\ \E i \in 1..Len(StoredProject(storage').flows) :
                      StoredProject(storage').flows[i].id = currentFlow.id
          ELSE UNCHANGED <<currentProject, storage, currentFlow>>]_vars

(***************************************************************************)
(* C17: generating an output in the editor.                                *)
(***************************************************************************)
\* C17: when handleGenerateOutput runs on a flow with a name and at least
\* one step, the output of the selected generator is stored, shown and
\* copied to the clipboard; otherwise an alert asks to complete the flow
\* details and nothing else changes.
C17_OutputGenerated ==
    [][GenerateOutput =>
          IF Truthy(currentFlow.name) /\ Len(currentFlow.steps) > 0
          THEN /\ output' =
                      (IF outputType = "drawio"
                       THEN generateDrawioPrompt(currentFlow, currentProject, clock)
                       ELSE generateMarkdownDoc(currentFlow, currentProject, clock))
               /\ showOutput'
               /\ clipboard' = output'
          ELSE /\ alerted' = "Please complete flow details before generating"
               /\ UNCHANGED <<output, showOutput, clipboard>>]_vars

(***************************************************************************)
(* C18: the participants of the sequence graph.                            *)
(***************************************************************************)
\* The labels a walk over the steps meets: per step its actor, then its
\* services.
WalkLabels(f, proj) ==
    Flatten([i \in 1..Len(f.steps) |->
        <<SequenceActorName(proj, f.steps[i].actorId)>>
        \o [k \in 1..Len(f.steps[i].serviceIds) |->
               SequenceServiceName(proj, f.steps[i].serviceIds[k])]])

\* The position at which a label is first met.
FirstSeen(walk, label) ==
    CHOOSE i \in 1..Len(walk) :
        walk[i] = label /\ \A j \in 1..(i - 1) : walk[j] # label

\* The participant labels a line of the sequence graph uses.
LabelsUsed(line) ==
    IF IsRequest(line) \/ IsReply(line) THEN {line[2], line[4]}
    ELSE IF IsNote(line) THEN {line[2]}
    ELSE {}

\* C18: in a sequence graph, every label a message line or a note uses is
\* declared by exactly one participant line; every participant line lies
\* before every message line, note and branch line; the declared labels are
\* exactly the labels of the walk over the steps (actor, then services), no
\* label twice, in the order in which the walk first meets them.
C18_Participants ==
    content.format = "sequence" =>
        LET out == content.lines
            declared == Ascending({i \in 1..Len(out) : IsParticipant(out[i])})
            label == [k \in 1..Len(declared) |-> out[declared[k]][2]]
            walk == WalkLabels(flow, project)
        IN /\ \A i \in 1..Len(out) : \A l \in LabelsUsed(out[i]) :
                  Cardinality({k \in 1..Len(label) : label[k] = l}) = 1
           /\ \A k \in 1..Len(declared) : \A i \in 1..Len(out) :
                  (\/ IsRequest(out[i]) \/ IsReply(out[i]) \/ IsNote(out[i])
                   \/ IsAlt(out[i]) \/ IsElse(out[i]) \/ IsEnd(out[i]))
                      => declared[k] < i
           /\ \A k \in 1..Len(declared) : Len(out[declared[k]]) = 2
           /\ {label[k] : k \in 1..Len(label)}
                  = {walk[i] : i \in 1..Len(walk)}
           /\ \A k, m \in 1..Len(label) :
                  k < m => FirstSeen(walk, label[k]) < FirstSeen(walk, label[m])

\* A sequence graph of two steps of the same actor and the same service,
\* with replies and a note: two participants for two requests.
C18_Witness ==
    /\ content.format = "sequence"
    /\ Len(flow.steps) = 2
    /\ \A i \in 1..2 : flow.steps[i].actorId = "a1"
                       /\ flow.steps[i].serviceIds = <<"s1">>
    /\ flow.steps[2].errorHandling = "retry"
    /\ Cardinality({i \in 1..Len(content.lines) :
                       IsParticipant(content.lines[i])}) = 2
    /\ Cardinality({i \in 1..Len(content.lines) :
                       IsRequest(content.lines[i])}) = 2

(***************************************************************************)
(* C19: the messages of the sequence graph.                                *)
(***************************************************************************)
\* What a line of the sequence graph says, whatever its arrow.
Said(line) ==
    IF IsRequest(line) THEN <<"request", line[2], line[4], line[6]>>
    ELSE IF IsReply(line) THEN <<"reply", line[2], line[4], line[6]>>
    ELSE <<"note over", line[2], line[4]>>

IsNoteOver(line) == Len(line) = 4 /\ line[1] = "    Note over "

\* What a step is to contribute: per service in stored order a request from
\* the actor and, when there is an output description, the reply; then the
\* note when there is an error-handling text.
Contribution(step, proj) ==
    LET actor == SequenceActorName(proj, step.actorId)
    IN Flatten([k \in 1..Len(step.serviceIds) |->
           LET service == SequenceServiceName(proj, step.serviceIds[k])
           IN << <<"request", actor, service, step.action>> >>
              \o (IF step.dataOutput.description # ""
                  THEN << <<"reply", service, actor,
                            step.dataOutput.description>> >>
                  ELSE <<>>)])
       \o (IF step.errorHandling # ""
           THEN << <<"note over", actor, step.errorHandling>> >>
           ELSE <<>>)

\* C19: in a sequence graph the request lines, reply lines and notes over an
\* actor are, in this order, the contributions of the steps taken by
\* position in the list, whatever their stepNumber values; and every reply
\* line directly follows the request line it answers.
C19_Messages ==
    content.format = "sequence" =>
        LET out == content.lines
            said == Ascending({i \in 1..Len(out) :
                        \/ IsRequest(out[i]) \/ IsReply(out[i])
                        \/ IsNoteOver(out[i])})
        IN /\ [k \in 1..Len(said) |-> Said(out[said[k]])]
                  = Flatten([i \in 1..Len(flow.steps) |->
                                Contribution(flow.steps[i], project)])
           /\ \A i \in 1..Len(out) :
                  IsReply(out[i]) =>
                      /\ i > 1
                      /\ IsRequest(out[i - 1])
                      /\ out[i - 1][2] = out[i][4]
                      /\ out[i - 1][4] = out[i][2]

\* A sequence graph of two steps numbered 2 and 1: the first with two
\* services and a reply to each, the second with a note.
C19_Witness ==
    /\ content.format = "sequence"
    /\ Len(flow.steps) = 2
    /\ flow.steps[1].stepNumber = 2
    /\ flow.steps[2].stepNumber = 1
    /\ Len(flow.steps[1].serviceIds) = 2
    /\ flow.steps[1].dataOutput.description = "ack"
    /\ flow.steps[2].errorHandling = "retry"
    /\ Cardinality({i \in 1..Len(content.lines) : IsReply(content.lines[i])}) >= 2
    /\ \E i, j \in 1..Len(content.lines) :
           /\ i < j
           /\ HasPiece(<<content.lines[i]>>, "Task 1")
           /\ IsNoteOver(content.lines[j])

(***************************************************************************)
(* C20: declared services and referenced services.                         *)
(***************************************************************************)
\* A service of the catalog is declared by the flow, is referenced by a step.
Declared(f, service) ==
    \E i \in 1..Len(ListOrEmpty(f, "involvedServiceIds")) :
        f.involvedServiceIds[i] = service.id

Referenced(f, service) ==
    \E i \in 1..Len(f.steps) : \E k \in 1..Len(f.steps[i].serviceIds) :
        f.steps[i].serviceIds[k] = service.id

\* Where a service of the catalog shows in a text.
IsColorEntry(line) ==
    /\ Len(line) = 4
    /\ line[1] = "     - "
    /\ \E c \in 1..Len(serviceColors) : line[4] = serviceColors[c]

InMatrixRow(out, service) ==
    \E i \in 1..Len(out) : IsMatrixRow(out[i]) /\ out[i][2] = service.name

InMatrixColumn(out, service) ==
    \E i \in 1..Len(out) :
        /\ IsMatrixHeader(out[i])
        /\ \E j \in 2..Len(out[i]) : out[i][j] = service.name

InNode(out, service) ==
    \E i \in 1..Len(out) : IsNode(out[i]) /\ out[i][4] = service.name

InParticipant(out, service) ==
    \E i \in 1..Len(out) :
        /\ IsParticipant(out[i])
        /\ out[i][2] = OrElse(service.abbreviation, service.name)

InColorEntry(out, service) ==
    \E i \in 1..Len(out) : IsColorEntry(out[i]) /\ out[i][2] = service.name

\* C20: for every service of the catalog, the matrix has its row and its
\* column, the topology graph its node and the prompt its color entry
\* exactly when the flow declares it in involvedServiceIds, referenced by a
\* step or not; and the sequence graph has its participant exactly when a
\* step references it, declared or not.
C20_DeclaredAndReferenced ==
    \A s \in 1..Len(AllServices(project)) :
        LET service == AllServices(project)[s]
        IN /\ content.format = "matrix" =>
                  /\ InMatrixRow(content.lines, service) <=> Declared(flow, service)
                  /\ InMatrixColumn(content.lines, service)
                         <=> Declared(flow, service)
           /\ content.format = "architecture" =>
                  (InNode(content.lines, service) <=> Declared(flow, service))
           /\ content.format = "drawio" =>
                  (InColorEntry(content.lines, service) <=> Declared(flow, service))
           /\ content.format = "sequence" =>
                  (InParticipant(content.lines, service)
                       <=> Referenced(flow, service))

\* The topology graph of a flow whose step references s1 and which declares
\* only s2: a node for s2, none for s1.
C20_Witness ==
    /\ content.format = "architecture"
    /\ project = Catalog
    /\ Referenced(flow, AllServices(Catalog)[1])
    /\ ~Declared(flow, AllServices(Catalog)[1])
    /\ Declared(flow, AllServices(Catalog)[2])
    /\ ~Referenced(flow, AllServices(Catalog)[2])
    /\ InNode(content.lines, AllServices(Catalog)[2])
    /\ ~InNode(content.lines, AllServices(Catalog)[1])

(***************************************************************************)
(* C21: the detailed interactions of the matrix.                           *)
(***************************************************************************)
IsDetailHeading(line) == Len(line) = 6 /\ line[1] = "### " /\ line[3] = ". "

DetailNotice == <<"No detailed service interactions documented.">>

\* A value as the listing prints it when an empty one is replaced.
OrNA(value) == IF value # "" THEN value ELSE "N/A"

\* The property rows a record is to show, in order.
DetailRows(x) ==
    << <<"| Interaction Type | ", x.interactionType, " |">>,
       <<"| Method | ", OrNA(x.method), " |">>,
       <<"| Endpoint | ", OrNA(x.endpoint), " |">>,
       <<"| Data Format | ", x.dataFormat, " |">>,
       <<"| Data Exchanged | ", x.dataExchanged, " |">>,
       <<"| Frequency | ", OrNA(x.frequency), " |">>,
       <<"| Latency | ", OrNA(x.averageLatency), " |">>,
       <<"| Authentication | ", OrNA(x.authentication), " |">> >>

\* C21: in a matrix text of a flow with involved services, after the
\* 'Detailed Interactions' heading there is one subsection per
\* service-interaction record, the k-th numbered k and naming the k-th
\* record's from and to services, followed by the record's eight property
\* rows, whatever the record's ends are; the notice that nothing is
\* documented is there exactly when there is no record.
C21_DetailedInteractions ==
    (/\ content.format = "matrix"
     /\ Len(ListOrEmpty(flow, "involvedServiceIds")) > 0) =>
        LET out == content.lines
            records == ListOrEmpty(flow, "serviceInteractions")
            at == LineAt(out, <<"## Detailed Interactions">>)
            heads == Ascending({i \in 1..Len(out) : IsDetailHeading(out[i])})
        IN /\ at > 0
           /\ Len(heads) = Len(records)
           /\ \A k \in 1..Len(heads) :
                  /\ heads[k] > at
                  /\ out[heads[k]][2] = NumStr(k)
                  /\ out[heads[k]][4] = getServiceName(project, records[k].fromServiceId)
                  /\ out[heads[k]][6] = getServiceName(project, records[k].toServiceId)
                  /\ SubSeq(out, heads[k] + 4, heads[k] + 11) = DetailRows(records[k])
           /\ (LineAt(out, DetailNotice) > 0) <=> (Len(records) = 0)
           /\ LineAt(out, DetailNotice) > 0 => LineAt(out, DetailNotice) > at

\* The matrix of a flow that involves s1 only and records an interaction of
\* s1 with itself and one from s2 to an unknown service.
C21_Witness ==
    /\ content.format = "matrix"
    /\ ListOrEmpty(flow, "involvedServiceIds") = <<"s1">>
    /\ Len(ListOrEmpty(flow, "serviceInteractions")) = 2
    /\ flow.serviceInteractions[1].fromServiceId = "s1"
    /\ flow.serviceInteractions[1].toServiceId = "s1"
    /\ flow.serviceInteractions[2].fromServiceId = "s2"
    /\ flow.serviceInteractions[2].toServiceId = "sX"
    /\ Cardinality({i \in 1..Len(content.lines) :
                       IsDetailHeading(content.lines[i])}) = 2

(***************************************************************************)
(* C22: the two integration sections of the prompt.                        *)
(***************************************************************************)

\* The first line of an entry of either section: "* from -> to".
IsPointEntry(line) == Len(line) = 4 /\ line[1] = "* " /\ line[3] = " -> "

\* The lines that end a section of the prompt: the heading of a later
\* section or the banner of the requirements block.
SectionStops == SectionHeadings \cup {<<"DRAW.IO DIAGRAM REQUIREMENTS:">>}

\* The positions of the entries of the section whose heading is at line
\* number at, in increasing order: up to the next heading or banner.
EntriesOf(out, at) ==
    LET stops == {j \in (at + 1)..Len(out) : out[j] \in SectionStops}
        stop == CHOOSE j \in stops : \A k \in stops : j <= k
    IN Ascending({i \in (at + 1)..(stop - 1) : IsPointEntry(out[i])})

\* The entries at the positions name the ends of the records, one each, in
\* stored order.
EntriesMatch(out, entries, records) ==
    /\ Len(entries) = Len(records)
    /\ \A k \in 1..Len(entries) :
          /\ out[entries[k]][2] = getServiceName(project, records[k].fromServiceId)
          /\ out[entries[k]][4] = getServiceName(project, records[k].toServiceId)

\* C22: the prompt has the detailed service-interactions section exactly
\* when flow.serviceInteractions is non-empty and the simple
\* integration-points section exactly when flow.integrations is non-empty;
\* each has one entry per record; the detailed section comes after the step
\* paragraphs and before the simple one, and both come before the business
\* rules, error scenarios, performance, notes and the requirements block.
C22_IntegrationSections ==
    content.format = "drawio" =>
        LET out == content.lines
            detailed == ListOrEmpty(flow, "serviceInteractions")
            simple == ListOrEmpty(flow, "integrations")
            detailedAt == LineAt(out, <<"Service Interactions (Detailed):">>)
            simpleAt == LineAt(out, <<"Integration Points:">>)
            later == {LineAt(out, line) :
                        line \in SectionStops \ {<<"Service Interactions (Detailed):">>,
                                                 <<"Integration Points:">>}} \ {0}
            paragraphs == {i \in 1..Len(out) : IsStepHeading(out[i])}
        IN /\ (detailedAt > 0) <=> (Len(detailed) > 0)
           /\ (simpleAt > 0) <=> (Len(simple) > 0)
           /\ detailedAt > 0 =>
                 /\ EntriesMatch(out, EntriesOf(out, detailedAt), detailed)
                 /\ \A i \in paragraphs : i < detailedAt
                 /\ \A j \in later : detailedAt < j
           /\ simpleAt > 0 =>
                 /\ EntriesMatch(out, EntriesOf(out, simpleAt), simple)
                 /\ \A i \in paragraphs : i < simpleAt
                 /\ \A j \in later : simpleAt < j
           /\ (detailedAt > 0 /\ simpleAt > 0) => detailedAt < simpleAt
           /\ Cardinality({i \in 1..Len(out) : IsPointEntry(out[i])})
                  = Len(detailed) + Len(simple)
           /\ Cardinality({i \in 1..Len(out) :
                              out[i] \in {<<"Service Interactions (Detailed):">>,
                                          <<"Integration Points:">>}})
                  = (IF Len(detailed) > 0 THEN 1 ELSE 0)
                    + (IF Len(simple) > 0 THEN 1 ELSE 0)

\* The prompt of a flow of one step, two records of each kind and all four
\* later sections.
C22_Witness ==
    /\ content.format = "drawio"
    /\ Len(flow.steps) = 1
    /\ Len(flow.serviceInteractions) = 2
    /\ Len(ListOrEmpty(flow, "integrations")) = 2
    /\ \A line \in SectionStops : LineAt(content.lines, line) > 0

(***************************************************************************)
(* C23: the swimlanes of requirement 1.                                    *)
(***************************************************************************)

IsSwimlane(line) == Len(line) >= 2 /\ line[1] = "   * Swimlane: "

\* The steps at which an actor is used for the first time.
FirstUses(f) ==
    Ascending({i \in 1..Len(f.steps) :
                  \A j \in 1..(i - 1) : f.steps[j].actorId # f.steps[i].actorId})

\* C23: requirement 1 of the prompt has exactly one swimlane line per
\* distinct actorId of flow.steps, in order of first use; an actor of
\* several steps has one line and an actor that only flow.actorIds lists has
\* none.
C23_Swimlanes ==
    content.format = "drawio" =>
        LET out == content.lines
            lanes == Ascending({i \in 1..Len(out) : IsSwimlane(out[i])})
            firsts == FirstUses(flow)
            used == {flow.steps[i].actorId : i \in 1..Len(flow.steps)}
        IN /\ Len(lanes) = Cardinality(used)
           /\ Len(lanes) = Len(firsts)
           /\ \A k \in 1..Len(lanes) :
                 /\ out[lanes[k]] = <<"   * Swimlane: ">>
                        \o getActorName(project, flow.steps[firsts[k]].actorId)
                 /\ lanes[k] = LineAt(out, <<"1. SWIMLANES:">>) + 2 + k
           /\ \A a \in Range(flow.actorIds) \ used :
                 \A k \in 1..Len(lanes) :
                     out[lanes[k]] # <<"   * Swimlane: ">> \o getActorName(project, a)

\* The prompt of three steps of the actors a2, a1, a2 of a flow that also
\* lists a3.
C23_Witness ==
    /\ content.format = "drawio"
    /\ Len(flow.steps) = 3
    /\ flow.steps[1].actorId = "a2"
    /\ flow.steps[2].actorId = "a1"
    /\ flow.steps[3].actorId = "a2"
    /\ "a3" \in Range(flow.actorIds)
    /\ Cardinality({i \in 1..Len(content.lines) : IsSwimlane(content.lines[i])}) = 2

(***************************************************************************)
(* C24: the decision points of requirement 5.                              *)
(***************************************************************************)

IsDecisionEntry(line) == Len(line) = 4 /\ line[1] = "   * Step "
IsPathLine(line) == Len(line) = 2 /\ line[1] = "     -> Path: "

\* C24: requirement 5 of the prompt has exactly one entry per step that is
\* a decision point, in step order, each entry directly followed by exactly
\* one path line per element of the step's conditionalPaths; a step that is
\* not a decision point has no entry.
C24_DecisionPoints ==
    content.format = "drawio" =>
        LET out == content.lines
            from == LineAt(out, <<"5. DECISION POINTS:">>)
            to == LineAt(out, <<"6. AUTOMATIONS & INTEGRATIONS:">>)
            entries == Ascending({i \in 1..Len(out) : IsDecisionEntry(out[i])})
            decisions == Ascending({i \in 1..Len(flow.steps) :
                                       flow.steps[i].isDecisionPoint})
        IN /\ from > 0 /\ from < to
           /\ Len(entries) = Len(decisions)
           /\ \A i \in 1..Len(out) : IsPathLine(out[i]) => from < i /\ i < to
           /\ \A k \in 1..Len(entries) :
                 LET step == flow.steps[decisions[k]]
                     paths == step.conditionalPaths
                     at == entries[k]
                 IN /\ from < at /\ at < to
                    /\ out[at] = <<"   * Step ", NumStr(step.stepNumber), ": ",
                                   step.decisionCriteria>>
                    /\ \A p \in 1..Len(paths) :
                          out[at + p] = <<"     -> Path: ", paths[p].condition>>
                    /\ ~IsPathLine(out[at + Len(paths) + 1])
           /\ Len(entries) = 0 =>
                 out[from + 4] = <<"   * No decision points in this flow">>

\* The prompt of a step that is no decision point followed by a decision
\* step of two paths.
C24_Witness ==
    /\ content.format = "drawio"
    /\ Len(flow.steps) = 2
    /\ ~flow.steps[1].isDecisionPoint
    /\ flow.steps[2].isDecisionPoint
    /\ Len(flow.steps[2].conditionalPaths) = 2
    /\ Cardinality({i \in 1..Len(content.lines) :
                       IsPathLine(content.lines[i])}) = 2

(***************************************************************************)
(* C25: the colors of requirement 7.                                       *)
(***************************************************************************)

\* The palette as the source writes it, by 0-based index.
Palette(i) ==
    CASE i = 0 -> "#E3F2FD" [] i = 1 -> "#F3E5F5" [] i = 2 -> "#E8F5E9"
      [] i = 3 -> "#FFF3E0" [] i = 4 -> "#FCE4EC"

\* C25: in requirement 7 the involved service at 0-based position i has the
\* palette color of index i mod 5, whichever service it is: positions i and
\* i + 5 have the same color and five consecutive positions have five
\* different colors.
C25_Colors ==
    content.format = "drawio" =>
        LET out == content.lines
            ids == ListOrEmpty(flow, "involvedServiceIds")
            at == LineAt(out, ColorsLine)
            Color(i) == out[at + 1 + i][4]
            last == Len(ids) - 1
        IN /\ at > 0
           /\ Cardinality({j \in 1..Len(out) : IsColorEntry(out[j])}) = Len(ids)
           /\ \A i \in 0..last :
                 /\ IsColorEntry(out[at + 1 + i])
                 /\ out[at + 1 + i][2] = getServiceName(project, ids[i + 1])
                 /\ Color(i) = Palette(i % 5)
           /\ \A i \in 0..(last - 5) : Color(i) = Color(i + 5)
           /\ \A i \in 0..(last - 4) :
                 Cardinality({Color(j) : j \in i..(i + 4)}) = 5

\* The prompt of seven involved services, the same service at positions 0
\* and 1 and different services at positions 0 and 5.
C25_Witness ==
    /\ content.format = "drawio"
    /\ Len(flow.involvedServiceIds) = 7
    /\ flow.involvedServiceIds[1] = flow.involvedServiceIds[2]
    /\ flow.involvedServiceIds[1] # flow.involvedServiceIds[6]
    /\ LET at == LineAt(content.lines, ColorsLine)
       IN /\ content.lines[at + 1][4] # content.lines[at + 2][4]
          /\ content.lines[at + 1][4] = content.lines[at + 6][4]

(***************************************************************************)
(* C26: the step numbers of the flow in the editor.                        *)
(***************************************************************************)

\* The numbers in ascending order, as stepNumbers.sort((a, b) => a - b).
SortNumbers(numbers) ==
    [k \in 1..Len(numbers) |->
        CHOOSE n \in Range(numbers) :
            /\ Cardinality({i \in 1..Len(numbers) : numbers[i] < n}) < k
            /\ Cardinality({i \in 1..Len(numbers) : numbers[i] <= n}) >= k]

\* The step-number check of validateFlow: its error, if any.
validateFlowStepNumbers(f) ==
    LET stepNumbers == SortNumbers([i \in 1..Len(f.steps) |-> f.steps[i].stepNumber])
    IN IF \E i \in 1..Len(stepNumbers) : stepNumbers[i] # i
       THEN <<"Step numbers must be sequential starting from 1">>
       ELSE <<>>

\* C26: after any sequence of add-step and remove-step events on a new
\* flow, two events handled before a render included, the step numbers of
\* the editor's flow are 1..n in list order and validateFlow has no
\* step-number error.
C26_StepNumbers ==
    /\ \A i \in 1..Len(currentFlow.steps) : currentFlow.steps[i].stepNumber = i
    /\ validateFlowStepNumbers(currentFlow) = <<>>

(***************************************************************************)
(* C27: activations in the sequence diagram.                               *)
(***************************************************************************)

\* The number of activating requests to, and of deactivating replies from,
\* a participant among the first i lines.
Activations(out, i, participant) ==
    Cardinality({j \in 1..i : /\ Len(out[j]) = 6
                              /\ out[j][3] = "->>+"
                              /\ out[j][4] = participant})

Deactivations(out, i, participant) ==
    Cardinality({j \in 1..i : /\ IsReply(out[j])
                              /\ out[j][2] = participant})

\* C27: in the sequence diagram every deactivating reply follows an
\* activating request to the same service that is still open, and no
\* activation is open at the end, whether or not a step has a
\* communication type or an output description.
C27_ActivationsBalanced ==
    content.format = "sequence" =>
        LET out == content.lines
            repliers == {out[j][2] : j \in {k \in 1..Len(out) : IsReply(out[k])}}
            requested == {out[j][4] : j \in {k \in 1..Len(out) : IsRequest(out[k])}}
        IN \A participant \in repliers \cup requested :
              /\ \A i \in 1..Len(out) :
                    Deactivations(out, i, participant)
                        <= Activations(out, i, participant)
              /\ Deactivations(out, Len(out), participant)
                     = Activations(out, Len(out), participant)

(***************************************************************************)
(* C28: the edges and the nodes of the topology graph.                     *)
(***************************************************************************)

\* The node identifier the graph gives a service: its abbreviation in the
\* catalog, "UNK" when the catalog does not have it.
NodeIdentifier(serviceId) ==
    LET known == {i \in 1..Len(AllServices(project)) :
                     AllServices(project)[i].id = serviceId}
    IN IF known = {} THEN "UNK"
       ELSE AllServices(project)[CHOOSE i \in known : \A j \in known : i <= j].abbreviation

\* The identifiers the node lines of a text declare.
DeclaredNodes(out) == {out[i][2] : i \in {j \in 1..Len(out) : IsNode(out[j])}}

C29_PerformanceRendered ==
    content.format = "drawio" =>
        LET out == content.lines
            perf == flow.performanceRequirements
            at == LineAt(out, <<"Performance Requirements:">>)
        IN /\ (at > 0) <=> (\/ Truthy(perf.responseTime)
                            \/ Truthy(perf.throughput)
                            \/ Truthy(perf.availability))
           /\ Truthy(perf.responseTime) =>
                 LineAt(out, <<"* Response Time: ", perf.responseTime>>) > at
           /\ Truthy(perf.throughput) =>
                 LineAt(out, <<"* Throughput: ", perf.throughput>>) > at
           /\ Truthy(perf.availability) =>
                 LineAt(out, <<"* Availability: ", perf.availability>>) > at

(***************************************************************************)
(* C30: the ids of the flows of the current project.                       *)
(***************************************************************************)

\* C30: after any sequence of saves, loads of saved flows, edits and
\* duplications the flows of the current project have pairwise different
\* ids; saving a flow that was loaded from the saved list adds no second
\* entry of its id.
C30_DistinctFlowIds ==
    \A i, j \in 1..Len(currentProject.flows) :
        currentProject.flows[i].id = currentProject.flows[j].id => i = j

====
